---------------------------- MODULE Spec2Model ----------------------------
(***************************************************************************)
(* State-machine model of the YEN snake game core: the SpatialGrid, the    *)
(* CollisionSystem, the Snake update, the NibbleManager and the Game frame *)
(* loop (Game._updateGameLogic and the handlers around it).                *)
(*                                                                         *)
(* Lengths are integers in tenths of a world unit (1.8 is 18, the cube     *)
(* half size 50 is 500), times are milliseconds.  A position is a triple   *)
(* <<x, y, z>>.                                                            *)
(***************************************************************************)
EXTENDS Integers, Sequences, FiniteSets, TLC

VARIABLES
    spatialGrid,                \* SpatialGrid: [grid, objectMap]
    insertedAt,                 \* per object: position given at its last insert, or NoPos
    lastOp,                     \* the last SpatialGrid call made by the grid harness
    isGameOver, gameStarted, isPaused, score,
    lastSpawnTime, lastShadowSpawnTime, isShadowSnakeInvulnerable,
    playerSnake, shadowSnakes, nibbles,
    now,                        \* performance.now()
    timers,                     \* pending setTimeout callbacks of _spawnShadowSnake
    pc,                         \* position inside Game._updateGameLogic
    frameIndex,                 \* Math.floor(time * 60) of the running frame
    crossing,                   \* what _checkCubeBoundary found in the running frame
    prevHead,                   \* history: the player's head before this frame's update
    windowStart,                \* history: time of the last reset or shadow spawn
    lastCollisions,             \* history: the events of the last _checkCollisions call
    spawnLoop,                  \* the sampling loop of NibbleManager.spawn: where it
                                \* is, and its locals tries, isSafe, position
    grown,                      \* history: the segments addSegment made in the
                                \* running frame's nibble collection
    settings,                   \* Settings._values: trailLength, shadowSpeed
    slither,                    \* history: the offset the player's last update
                                \* added to head.position.y
    pool,                       \* Vector3Pool.pool, the last element on top
    targetDirection,            \* per snake id: the vector its constructor took
    lent,                       \* history: the vectors get handed out that were not
                                \* released since (taken), and whether get handed
                                \* out one of them again (aliased)
    poolTracked                 \* whether the behaviour follows the pool

vars == <<spatialGrid, insertedAt, lastOp, isGameOver, gameStarted, isPaused, score,
          lastSpawnTime, lastShadowSpawnTime, isShadowSnakeInvulnerable,
          playerSnake, shadowSnakes, nibbles, now, timers, pc, frameIndex, crossing,
          prevHead, windowStart, lastCollisions, spawnLoop, grown, settings, slither,
          pool, targetDirection, lent, poolTracked>>

\* null: no position, no hit point
NoPos == << >>

(***************************************************************************)
(* Program constants (config/constants.js), in tenths of a unit / ms.      *)
(***************************************************************************)
CUBE_SIZE == 1000
CUBE_HALF_SIZE == CUBE_SIZE \div 2
SEGMENT_RADIUS == 8
SEGMENT_SPACING == SEGMENT_RADIUS * 2
COLLISION_DISTANCE == 18
WALL_BUFFER == 50
SAFE_WALL_DISTANCE == 20
SAFE_OBJECT_DISTANCE == 20
SPAWN_INTERVAL == 3000
SHADOW_SPAWN_DELAY == 3000
CellSize == 100
PickupThreshold == 225
SelfSkip == 10
InitialLength == 5
InsetAmount == 20
InvulnerableMs == 3000
SpawnRate == 3

(***************************************************************************)
(* Bounds of the model.                                                    *)
(***************************************************************************)
TrailLength == 2
MaxShadows == 1
MaxNibbles == 5
MaxEaten == 6
MaxTime == 6000
TickMs == 1500
PickupMaxTime == 1500

\* new Settings(): the values of trailLength (bounded), speed and shadowSpeed;
\* speeds are in hundredths of a unit per frame
DefaultSpeed == 30
DefaultShadowSpeed == 40
DefaultSettings == [trailLength |-> TrailLength, shadowSpeed |-> DefaultShadowSpeed]

(***************************************************************************)
(* Vectors.                                                                *)
(***************************************************************************)
Abs(n) == IF n < 0 THEN -n ELSE n

Sign(n) == IF n > 0 THEN 1 ELSE IF n < 0 THEN -1 ELSE 0

Min(a, b) == IF a < b THEN a ELSE b

Max(a, b) == IF a > b THEN a ELSE b

VAdd(a, b) == <<a[1] + b[1], a[2] + b[2], a[3] + b[3]>>

VSub(a, b) == <<a[1] - b[1], a[2] - b[2], a[3] - b[3]>>

VScale(a, k) == <<a[1] * k, a[2] * k, a[3] * k>>

VDot(a, b) == a[1] * b[1] + a[2] * b[2] + a[3] * b[3]

\* VectorMath.distanceSquared
DistSq(a, b) == VDot(VSub(a, b), VSub(a, b))

\* DistLess letting the distance d itself through
DistAtMost(a, b, d) == DistSq(a, b) <= d * d

\* THREE.Vector3.distanceTo(b) < d, for d >= 0
DistLess(a, b, d) == DistSq(a, b) < d * d

\* length of a leg of the path: heads move along an axis in the game runs;
\* on an oblique leg the length is that of its longest component
LegLength(a, b) == Max(Abs(a[1] - b[1]), Max(Abs(a[2] - b[2]), Abs(a[3] - b[3])))

\* direction of the leg from a to b, one step per axis
UnitDir(a, b) == <<Sign(b[1] - a[1]), Sign(b[2] - a[2]), Sign(b[3] - a[3])>>

\* VectorMath.moveForward
MoveForward(position, direction, distance) == VAdd(position, VScale(direction, distance))

\* THREE.Vector3.reflect, for a unit normal
Reflect(d, n) == VSub(d, VScale(n, 2 * VDot(d, n)))

(***************************************************************************)
(* SpatialGrid.  A cell is the insertion-ordered content of a JS Set.      *)
(***************************************************************************)
EmptyGrid == [grid |-> << >>, objectMap |-> << >>]

GetGridKey(position) ==
    <<position[1] \div CellSize, position[2] \div CellSize, position[3] \div CellSize>>

SeqRemove(s, e) == SelectSeq(s, LAMBDA x : x # e)

SeqHas(s, e) == \E i \in 1..Len(s) : s[i] = e

SeqAddUnique(s, e) == IF SeqHas(s, e) THEN s ELSE Append(s, e)

Restrict(f, S) == [x \in S |-> f[x]]

\* SGRemove with the whole cell deleted instead of the one object
SGRemoveDropsCell(sg, object) ==
    LET has == object \in DOMAIN sg.objectMap
        key == sg.objectMap[object]
    IN  [grid |-> IF has /\ key \in DOMAIN sg.grid
                  THEN Restrict(sg.grid, DOMAIN sg.grid \ {key})
                  ELSE sg.grid,
         objectMap |-> Restrict(sg.objectMap, DOMAIN sg.objectMap \ {object})]

\* SGRemove with the object forgotten in objectMap but left in its cell
SGRemoveKeepsCell(sg, object) ==
    [grid |-> sg.grid,
     objectMap |-> Restrict(sg.objectMap, DOMAIN sg.objectMap \ {object})]

\* SGRemove keeping a cell whose last object left
SGRemoveLeavesEmptyCell(sg, object) ==
    LET has == object \in DOMAIN sg.objectMap
        key == sg.objectMap[object]
    IN  [grid |-> IF has /\ key \in DOMAIN sg.grid
                  THEN [sg.grid EXCEPT ![key] = SeqRemove(@, object)]
                  ELSE sg.grid,
         objectMap |-> Restrict(sg.objectMap, DOMAIN sg.objectMap \ {object})]

SGRemove(sg, object) ==
    LET has == object \in DOMAIN sg.objectMap
        key == sg.objectMap[object]
        g1 == IF has /\ key \in DOMAIN sg.grid
              THEN LET cell == SeqRemove(sg.grid[key], object)
                   IN  IF Len(cell) = 0
                       THEN Restrict(sg.grid, DOMAIN sg.grid \ {key})
                       ELSE [sg.grid EXCEPT ![key] = cell]
              ELSE sg.grid
    IN  [grid |-> g1,
         objectMap |-> Restrict(sg.objectMap, DOMAIN sg.objectMap \ {object})]

SGInsert(sg, object, position) ==
    LET key == GetGridKey(position)
        s1 == SGRemove(sg, object)
        g1 == IF key \in DOMAIN s1.grid
              THEN [s1.grid EXCEPT ![key] = SeqAddUnique(@, object)]
              ELSE s1.grid @@ (key :> <<object>>)
    IN  [grid |-> g1, objectMap |-> s1.objectMap @@ (object :> key)]

SGClear(sg) == EmptyGrid

CeilDiv(a, b) == (a + b - 1) \div b

\* NearbyKeys visiting the centre cell only
NearbyKeysCentre(center, cellRadius) == <<center>>

\* the cell keys visited by getNearby, in loop order (x outer, z inner)
NearbyKeys(center, cellRadius) ==
    LET n == 2 * cellRadius + 1
    IN  [k \in 1..(n * n * n) |->
            <<center[1] - cellRadius + ((k - 1) \div (n * n)),
              center[2] - cellRadius + (((k - 1) \div n) % n),
              center[3] - cellRadius + ((k - 1) % n)>>]

RECURSIVE AddAllUnique(_, _)
AddAllUnique(acc, s) ==
    IF s = << >> THEN acc ELSE AddAllUnique(SeqAddUnique(acc, Head(s)), Tail(s))

\* the objects of the cells that exist, cell by cell, each object once
RECURSIVE CollectCells(_, _, _)
CollectCells(g, keys, acc) ==
    IF keys = << >> THEN acc
    ELSE CollectCells(g, Tail(keys), AddAllUnique(acc, g[Head(keys)]))

SGGetNearby(sg, position, radius) ==
    CollectCells(sg.grid,
                 SelectSeq(NearbyKeys(GetGridKey(position), CeilDiv(radius, CellSize)),
                           LAMBDA key : key \in DOMAIN sg.grid),
                 << >>)

(***************************************************************************)
(* Tracked objects: <<kind, owner, index>>.  A snake's head is a           *)
(* THREE.Group, a segment and a nibble are meshes with a MeshBasicMaterial; *)
(* the cube faces (kind "wall") are never passed to updateObject.          *)
(***************************************************************************)
HeadObj(id) == <<"head", id, 0>>

SegObj(id, i) == <<"seg", id, i>>

NibObj(id) == <<"nib", id, 0>>

\* CollisionSystem._isWallObject
IsWallObject(object) == object[1] = "wall"

\* CollisionSystem.updateObject
UpdateObject(sg, object, position) ==
    IF IsWallObject(object) THEN sg ELSE SGInsert(sg, object, position)

\* RemoveObject leaving the object where it is
RemoveObjectKeeps(sg, object) == sg

\* CollisionSystem.removeObject
RemoveObject(sg, object) ==
    IF IsWallObject(object) THEN sg ELSE SGRemove(sg, object)

RECURSIVE RemoveObjects(_, _)
RemoveObjects(sg, objects) ==
    IF objects = << >> THEN sg
    ELSE RemoveObjects(RemoveObject(sg, Head(objects)), Tail(objects))

(***************************************************************************)
(* Snake.                                                                   *)
(***************************************************************************)
SegObjs(s) == [i \in 1..Len(s.segments) |-> SegObj(s.id, i)]

\* Snake.addSegment: the new segment goes one spacing behind the last one,
\* against this.direction, and is entered in the grid at that position.
AddSegment(s, sg) ==
    LET lastPosition == IF Len(s.segments) > 0
                        THEN s.segments[Len(s.segments)]
                        ELSE s.head
        newPosition == VSub(lastPosition, VScale(s.direction, SEGMENT_SPACING))
        s1 == [s EXCEPT !.segments = Append(@, newPosition)]
    IN  [snake |-> s1,
         sg |-> UpdateObject(sg, SegObj(s.id, Len(s1.segments)), newPosition)]

RECURSIVE AddSegments(_, _, _)
AddSegments(s, sg, n) ==
    IF n = 0 THEN [snake |-> s, sg |-> sg]
    ELSE LET r == AddSegment(s, sg) IN AddSegments(r.snake, r.sg, n - 1)

\* the trail laid out behind the head (Snake._init, Snake.syncDirection)
InitTrail(head, direction) ==
    [i \in 1..settings.trailLength |-> VAdd(head, VScale(direction, -((i - 1) * SEGMENT_SPACING)))]

\* new Snake(scene, collisionSystem, isPlayer): constructor and _init
NewSnake(sg, id, isPlayer) ==
    LET origin == <<0, 0, 0>>
        s0 == [id |-> id, isPlayer |-> isPlayer,
               speed |-> IF isPlayer THEN DefaultSpeed ELSE settings.shadowSpeed,
               head |-> origin,
               facing |-> <<0, 0, 1>>,          \* head.getWorldDirection()
               direction |-> <<0, 0, -1>>,
               segments |-> << >>, trail |-> << >>,
               nibblesEaten |-> 0,
               isInitialReflectionPhase |-> FALSE,
               creationTime |-> 0]
        r == AddSegments(s0, UpdateObject(sg, HeadObj(id), origin), InitialLength)
    IN  [snake |-> [r.snake EXCEPT !.trail = InitTrail(origin, s0.direction)],
         sg |-> r.sg]

\* Snake.syncDirection
SyncDirection(s) ==
    [s EXCEPT !.direction = s.facing, !.trail = InitTrail(s.head, s.facing)]

\* length of the centerline through the trail (THREE.CatmullRomCurve3.getLength,
\* taken along the legs between consecutive trail samples)
RECURSIVE PathLength(_)
PathLength(trail) ==
    IF Len(trail) < 2 THEN 0
    ELSE LegLength(trail[1], trail[2]) + PathLength(Tail(trail))

\* the point at distance s from a on the leg from a to b
Lerp(a, b, s) ==
    [k \in 1..3 |-> a[k] + ((b[k] - a[k]) * s) \div LegLength(a, b)]

\* the point at arc length s from the head end of the path, clamped to the
\* tail end (path.getPointAt(Math.min(t, 1)))
RECURSIVE PathPoint(_, _)
PathPoint(trail, s) ==
    IF Len(trail) < 2 THEN trail[1]
    ELSE LET leg == LegLength(trail[1], trail[2])
         IN  IF s <= leg
             THEN Lerp(trail[1], trail[2], s)
             ELSE PathPoint(Tail(trail), s - leg)

\* AvoidWalls without the clamp
AvoidWallsSteersOnly(pos) == pos

\* Snake._avoidWalls: the positional part (the clamp); the steering part
\* turns the head and is drawn with the next displacement.
AvoidWalls(pos) ==
    LET safeBoundary == CUBE_HALF_SIZE - WALL_BUFFER
        needsTurn == \E a \in 1..3 : pos[a] > safeBoundary \/ pos[a] < -safeBoundary
        lim == CUBE_HALF_SIZE - SEGMENT_RADIUS
    IN  IF needsTurn
        THEN [a \in 1..3 |-> Min(Max(pos[a], -lim), lim)]
        ELSE pos

\* segment i of a snake after the trail was updated (Snake.update, lines 309-323)
SegmentPlace(trail, head, facing, i) ==
    IF PathLength(trail) > 0
    THEN PathPoint(trail, i * SEGMENT_SPACING)
    ELSE MoveForward(head, facing, -(i * SEGMENT_SPACING))

RECURSIVE UpdateObjects(_, _, _)
UpdateObjects(sg, objects, positions) ==
    IF objects = << >> THEN sg
    ELSE UpdateObjects(UpdateObject(sg, Head(objects), Head(positions)),
                       Tail(objects), Tail(positions))

\* the distance below which a seeking snake slows down (Snake._seekNibbles)
SeekSlowDistance == 20

\* the nearest nibble of Snake._seekNibbles: the first one at the least distance
RECURSIVE ClosestNibble(_, _, _)
ClosestNibble(ns, pos, best) ==
    IF ns = << >> THEN best
    ELSE ClosestNibble(Tail(ns), pos,
                       IF best = NoPos \/ DistSq(pos, Head(ns).pos) < DistSq(pos, best)
                       THEN Head(ns).pos ELSE best)

\* Snake._seekNibbles: the speed it leaves the snake with.  Every nibble of the
\* list has a position, so the branch for "no closest nibble" is never taken
\* on a list that is not empty.
SeekNibbles(s, ns, pos) ==
    LET closest == ClosestNibble(ns, pos, NoPos)
    IN  IF ns = << >> THEN s.speed
        ELSE IF closest # NoPos /\ ~DistAtMost(pos, closest, SeekSlowDistance)
        THEN s.speed
        ELSE IF closest # NoPos
        THEN settings.shadowSpeed \div 2
        ELSE settings.shadowSpeed

\* Snake.update(delta).  moved is the head after the displacement
\* speed * delta * 60 along the head's direction; a snake that is not the
\* player then seeks (outside its reflection phase) and avoids the walls;
\* wiggle is the offset wiggle * 0.1 then added to head.position.y; the trail
\* takes the head in front and gives up one entry when it is over
\* settings.trailLength.  Only the player's segments and head are re-entered
\* in the grid.
SnakeUpdateWiggle(s, sg, moved, wiggle) ==
    LET dir == IF moved = s.head THEN s.facing ELSE UnitDir(s.head, moved)
        speed1 == IF s.isPlayer \/ s.isInitialReflectionPhase THEN s.speed
                  ELSE SeekNibbles(s, nibbles, moved)
        head0 == IF s.isPlayer THEN moved ELSE AvoidWalls(moved)
        head1 == <<head0[1], head0[2] + wiggle, head0[3]>>
        t1 == <<head1>> \o s.trail
        trail1 == IF Len(t1) > settings.trailLength
                  THEN SubSeq(t1, 1, Len(t1) - 1) ELSE t1
        segs1 == [i \in 1..Len(s.segments) |-> SegmentPlace(trail1, head1, dir, i)]
        s1 == [s EXCEPT !.direction = dir, !.facing = dir, !.head = head1,
                        !.speed = speed1,
                        !.trail = trail1, !.segments = segs1]
        sg1 == IF s.isPlayer
               THEN UpdateObject(UpdateObjects(sg, SegObjs(s1), segs1),
                                 HeadObj(s.id), head1)
               ELSE sg
    IN  [snake |-> s1, sg |-> sg1]

\* Snake.update(delta) with the slither offset at zero
SnakeUpdate(s, sg, target) == SnakeUpdateWiggle(s, sg, target, 0)

\* playerSnake = null
NoSnake ==
    [id |-> -1, isPlayer |-> FALSE, speed |-> DefaultSpeed,
     head |-> <<0, 0, 0>>, facing |-> <<0, 0, 1>>,
     direction |-> <<0, 0, -1>>, segments |-> << >>, trail |-> << >>,
     nibblesEaten |-> 0, isInitialReflectionPhase |-> FALSE, creationTime |-> 0]

HasSnake(s) == s.id # -1

\* Snake.dispose: the segments and the head leave the grid, the trail is
\* emptied; the segment list itself is kept.
SnakeDispose(s, sg) ==
    [snake |-> [s EXCEPT !.trail = << >>],
     sg |-> RemoveObject(RemoveObjects(sg, SegObjs(s)), HeadObj(s.id))]

(***************************************************************************)
(* The game state threaded through the handlers.                           *)
(***************************************************************************)
G == [spatialGrid |-> spatialGrid, isGameOver |-> isGameOver, score |-> score,
      lastSpawnTime |-> lastSpawnTime, lastShadowSpawnTime |-> lastShadowSpawnTime,
      isShadowSnakeInvulnerable |-> isShadowSnakeInvulnerable,
      playerSnake |-> playerSnake, shadowSnakes |-> shadowSnakes,
      nibbles |-> nibbles, timers |-> timers, disposals |-> << >>]

Commit(g) ==
    /\ spatialGrid' = g.spatialGrid
    /\ isGameOver' = g.isGameOver
    /\ score' = g.score
    /\ lastSpawnTime' = g.lastSpawnTime
    /\ lastShadowSpawnTime' = g.lastShadowSpawnTime
    /\ isShadowSnakeInvulnerable' = g.isShadowSnakeInvulnerable
    /\ playerSnake' = g.playerSnake
    /\ shadowSnakes' = g.shadowSnakes
    /\ nibbles' = g.nibbles
    /\ timers' = g.timers

PlayerId == 0

\* history flag of a nibble: fresh while the frame that created it is running
Settle(g) ==
    [g EXCEPT !.nibbles = [k \in 1..Len(g.nibbles) |-> [g.nibbles[k] EXCEPT !.fresh = FALSE]]]

\* obj.position of a tracked object
ObjPosition(g, object) ==
    LET owner == IF object[2] = PlayerId THEN g.playerSnake
                 ELSE (CHOOSE k \in 1..Len(g.shadowSnakes) :
                           g.shadowSnakes[k].id = object[2]) 
    IN  CASE object[1] = "nib" ->
                 g.nibbles[CHOOSE k \in 1..Len(g.nibbles) : g.nibbles[k].id = object[2]].pos
          [] object[1] = "head" ->
                 (IF object[2] = PlayerId THEN g.playerSnake
                  ELSE g.shadowSnakes[owner]).head
          [] OTHER ->
                 (IF object[2] = PlayerId THEN g.playerSnake
                  ELSE g.shadowSnakes[owner]).segments[object[3]]

(***************************************************************************)
(* NibbleManager.                                                          *)
(***************************************************************************)
NibbleIds(ns) == {ns[k].id : k \in 1..Len(ns)}

FreshNibbleId(ns) == CHOOSE i \in 1..(Len(ns) + 1) : i \notin NibbleIds(ns)

\* NibbleManager.createAt, after the optional random offset was applied
CreateAt(g, position) ==
    LET id == FreshNibbleId(g.nibbles)
    IN  [g EXCEPT !.nibbles = Append(@, [id |-> id, pos |-> position, fresh |-> TRUE]),
                  !.spatialGrid = UpdateObject(@, NibObj(id), position)]

IsNearWall(p) ==
    \E a \in 1..3 : Abs(p[a]) > CUBE_HALF_SIZE - SAFE_WALL_DISTANCE

\* IsSafeSpot without the test of the nearby objects
IsSafeSpotUnchecked(g, p) == TRUE

\* the isSafe test of NibbleManager.spawn: no object returned by the grid
\* query around p is closer than SAFE_OBJECT_DISTANCE
IsSafeSpot(g, p) ==
    LET nearbyObjects == SGGetNearby(g.spatialGrid, p, SAFE_OBJECT_DISTANCE * 2)
    IN  \A k \in 1..Len(nearbyObjects) :
            ~(DistSq(p, ObjPosition(g, nearbyObjects[k]))
                  < SAFE_OBJECT_DISTANCE * SAFE_OBJECT_DISTANCE)

\* NibbleManager.spawn can end at p: p is the last sample drawn, not near a
\* wall; an unsafe p is kept when more than 100 samples were rejected before.
CanSpawnAt(g, p) == ~IsNearWall(p)

\* NibbleSpawn adding no nibble
NibbleSpawnNothing(g, p) == g

\* NibbleManager.spawn, with p the accepted sample
NibbleSpawn(g, p) == CreateAt(g, p)

\* FindNearby returning the nibble nearest to the position among those in
\* reach (the earliest of them on a tie) instead of the first in list order
FindNearbyNearest(ns, position) ==
    IF \E k \in 1..Len(ns) : DistSq(position, ns[k].pos) < PickupThreshold
    THEN CHOOSE k \in 1..Len(ns) :
             /\ DistSq(position, ns[k].pos) < PickupThreshold
             /\ \A j \in 1..Len(ns) :
                    \/ DistSq(position, ns[j].pos) > DistSq(position, ns[k].pos)
                    \/ (DistSq(position, ns[j].pos) = DistSq(position, ns[k].pos) /\ j >= k)
    ELSE 0

\* FindNearby returning the last nibble in reach instead of the first
FindNearbyLast(ns, position) ==
    IF \E k \in 1..Len(ns) : DistSq(position, ns[k].pos) < PickupThreshold
    THEN CHOOSE k \in 1..Len(ns) :
             /\ DistSq(position, ns[k].pos) < PickupThreshold
             /\ \A j \in (k + 1)..Len(ns) : ~(DistSq(position, ns[j].pos) < PickupThreshold)
    ELSE 0

\* NibbleManager.findNearby: index of the first nibble in list order closer
\* than the threshold (squared distance), 0 when there is none (-1 in JS)
FindNearby(ns, position) ==
    LET RECURSIVE findIndex(_)
        findIndex(k) ==
            IF k > Len(ns) THEN 0
            ELSE IF DistSq(position, ns[k].pos) < PickupThreshold THEN k
            ELSE findIndex(k + 1)
    IN  findIndex(1)

\* NibbleManager.removeByIndex
RemoveByIndex(g, index) ==
    IF index >= 1 /\ index <= Len(g.nibbles)
    THEN [g EXCEPT !.nibbles = SubSeq(@, 1, index - 1) \o SubSeq(@, index + 1, Len(@)),
                   !.spatialGrid = RemoveObject(@, NibObj(g.nibbles[index].id))]
    ELSE g

\* NibbleManager.clear
NibbleClear(g) ==
    [g EXCEPT !.nibbles = << >>,
              !.spatialGrid = RemoveObjects(@, [k \in 1..Len(g.nibbles) |->
                                                    NibObj(g.nibbles[k].id)])]

(***************************************************************************)
(* CollisionSystem.checkCollisions: the events of one frame.               *)
(***************************************************************************)
IsSegmentOf(s, object) ==
    object[1] = "seg" /\ object[2] = s.id /\ object[3] \in 1..Len(s.segments)

PlayerEvents(g) ==
    LET p == g.playerSnake
        nearbyObjects == SGGetNearby(g.spatialGrid, p.head, COLLISION_DISTANCE * 2)
        hits == SelectSeq(nearbyObjects, LAMBDA obj :
                    /\ obj # HeadObj(p.id)
                    /\ ~IsWallObject(obj)
                    /\ ~IsSegmentOf(p, obj)
                    /\ DistLess(p.head, ObjPosition(g, obj), COLLISION_DISTANCE))
    IN  [k \in 1..Len(hits) |->
            [type |-> "player_collision", snake |-> p, object |-> hits[k]]]

ShadowEvents(g, shadow) ==
    LET nearbyObjects == SGGetNearby(g.spatialGrid, shadow.head, COLLISION_DISTANCE * 2)
        hits == SelectSeq(nearbyObjects, LAMBDA obj :
                    /\ obj # HeadObj(shadow.id)
                    /\ ~IsWallObject(obj)
                    /\ DistLess(shadow.head, ObjPosition(g, obj), COLLISION_DISTANCE))
    IN  [k \in 1..Len(hits) |->
            [type |-> "shadow_collision", snake |-> shadow, object |-> hits[k]]]

RECURSIVE AllShadowEvents(_, _)
AllShadowEvents(g, k) ==
    IF k > Len(g.shadowSnakes) THEN << >>
    ELSE ShadowEvents(g, g.shadowSnakes[k]) \o AllShadowEvents(g, k + 1)

CheckCollisions(g) ==
    IF ~HasSnake(g.playerSnake) THEN << >>
    ELSE PlayerEvents(g) \o AllShadowEvents(g, 1)

(***************************************************************************)
(* Game: dissolution and collision resolution.                             *)
(***************************************************************************)
RECURSIVE DropNibbles(_, _, _, _)
DropNibbles(g, positions, n, offset) ==
    IF n = 0 \/ positions = << >> THEN g
    ELSE DropNibbles(CreateAt(g, VAdd(Head(positions), offset)),
                     Tail(positions), n - 1, offset)

\* DissolveSnake emptying the list of shadow snakes
DissolveSnakeRemovesAll(g, snake, offset) ==
    LET g1 == [g EXCEPT !.spatialGrid =
                   RemoveObjects(RemoveObject(@, HeadObj(snake.id)), SegObjs(snake))]
        g2 == DropNibbles(g1, snake.segments,
                          IF snake.isPlayer
                          THEN Min(Len(snake.segments), snake.nibblesEaten)
                          ELSE Len(snake.segments),
                          IF snake.isPlayer THEN <<0, 0, 0>> ELSE offset)
    IN  IF snake.isPlayer
        THEN [g2 EXCEPT !.isGameOver = TRUE,
                        !.playerSnake = [snake EXCEPT !.trail = << >>]]
        ELSE [g2 EXCEPT !.shadowSnakes = << >>]

\* DissolveSnake ending the game for a shadow snake as well
DissolveSnakeEndsGame(g, snake, offset) ==
    LET g1 == [g EXCEPT !.spatialGrid =
                   RemoveObjects(RemoveObject(@, HeadObj(snake.id)), SegObjs(snake))]
        g2 == DropNibbles(g1, snake.segments,
                          IF snake.isPlayer
                          THEN Min(Len(snake.segments), snake.nibblesEaten)
                          ELSE Len(snake.segments),
                          IF snake.isPlayer THEN <<0, 0, 0>> ELSE offset)
    IN  IF snake.isPlayer
        THEN [g2 EXCEPT !.isGameOver = TRUE,
                        !.playerSnake = [snake EXCEPT !.trail = << >>]]
        ELSE [g2 EXCEPT !.isGameOver = TRUE,
                        !.shadowSnakes = SelectSeq(@, LAMBDA x : x.id # snake.id)]

\* DissolveSnake dropping a nibble for every segment of the player too
DissolveSnakeDropsAll(g, snake, offset) ==
    LET g1 == [g EXCEPT !.spatialGrid =
                   RemoveObjects(RemoveObject(@, HeadObj(snake.id)), SegObjs(snake))]
        g2 == DropNibbles(g1, snake.segments, Len(snake.segments),
                          IF snake.isPlayer THEN <<0, 0, 0>> ELSE offset)
        d == [snake |-> [snake EXCEPT !.trail = << >>],
              sg |-> RemoveObject(RemoveObjects(g2.spatialGrid, SegObjs(snake)),
                                  HeadObj(snake.id))]
    IN  IF snake.isPlayer
        THEN [g2 EXCEPT !.isGameOver = TRUE, !.playerSnake = d.snake,
                        !.spatialGrid = d.sg]
        ELSE [g2 EXCEPT !.shadowSnakes = SelectSeq(@, LAMBDA x : x.id # snake.id),
                        !.spatialGrid = d.sg]

\* Game._dissolveSnake.  offset is the random displacement createAt adds to
\* the nibbles dropped by a shadow snake.
DissolveSnake(g, snake, offset) ==
    LET g1 == [g EXCEPT !.spatialGrid =
                   RemoveObjects(RemoveObject(@, HeadObj(snake.id)), SegObjs(snake))]
        nibblesDropped == IF snake.isPlayer
                          THEN Min(Len(snake.segments), snake.nibblesEaten)
                          ELSE Len(snake.segments)
        g2 == DropNibbles(g1, snake.segments, nibblesDropped,
                          IF snake.isPlayer THEN <<0, 0, 0>> ELSE offset)
        d == SnakeDispose(snake, g2.spatialGrid)
        log == Append(g.disposals, [id |-> snake.id, points |-> Len(snake.trail)])
    IN  IF snake.isPlayer
        THEN [g2 EXCEPT !.isGameOver = TRUE, !.playerSnake = d.snake,
                        !.spatialGrid = d.sg, !.disposals = log]
        ELSE [g2 EXCEPT !.shadowSnakes = SelectSeq(@, LAMBDA x : x.id # snake.id),
                        !.spatialGrid = d.sg, !.disposals = log]

IsSegmentOfAny(shadows, object) ==
    \E k \in 1..Len(shadows) : IsSegmentOf(shadows[k], object)

IsSegmentOfOther(shadows, shadow, object) ==
    \E k \in 1..Len(shadows) :
        shadows[k].id # shadow.id /\ IsSegmentOf(shadows[k], object)

\* ResolveShadowEvent without the skip window: any own segment is a hit
ResolveShadowEventNoSkip(g, c, offset) ==
    LET shadow == c.snake
    IN  IF c.object = HeadObj(shadow.id) THEN g
        ELSE IF IsSegmentOf(g.playerSnake, c.object)
                \/ IsSegmentOfOther(g.shadowSnakes, shadow, c.object)
                \/ IsSegmentOf(shadow, c.object)
        THEN DissolveSnake(g, shadow, offset)
        ELSE g

\* the body of the loop of Game._checkCollisions for a shadow_collision
ResolveShadowEvent(g, c, offset) ==
    LET shadow == c.snake
        selfHit == IsSegmentOf(shadow, c.object) /\ c.object[3] - 1 >= SelfSkip
    IN  IF c.object = HeadObj(shadow.id) THEN g
        ELSE IF IsSegmentOf(g.playerSnake, c.object)
        THEN DissolveSnake(g, shadow, offset)
        ELSE LET g1 == IF IsSegmentOfOther(g.shadowSnakes, shadow, c.object)
                       THEN DissolveSnake(g, shadow, offset)
                       ELSE g
             IN  IF selfHit THEN DissolveSnake(g1, shadow, offset) ELSE g1

\* Game._checkCollisions: the loop over the collision events
RECURSIVE ResolveCollisions(_, _, _)
ResolveCollisions(g, collisions, offset) ==
    IF collisions = << >> THEN g
    ELSE LET c == Head(collisions)
         IN  IF c.type = "player_collision"
             THEN IF c.object = HeadObj(g.playerSnake.id)
                  THEN ResolveCollisions(g, Tail(collisions), offset)
                  ELSE IF IsSegmentOfAny(g.shadowSnakes, c.object)
                  THEN DissolveSnake(g, g.playerSnake, offset)
                  ELSE IF IsSegmentOf(g.playerSnake, c.object)
                          /\ c.object[3] - 1 >= SelfSkip
                  THEN DissolveSnake(g, g.playerSnake, offset)
                  ELSE ResolveCollisions(g, Tail(collisions), offset)
             ELSE ResolveCollisions(ResolveShadowEvent(g, c, offset),
                                    Tail(collisions), offset)

\* the events as the history keeps them: type, snake and object by name
EventLog(events) ==
    [k \in 1..Len(events) |->
        [type |-> events[k].type, snake |-> events[k].snake.id,
         object |-> events[k].object]]

GameCheckCollisions(g, offset) == ResolveCollisions(g, CheckCollisions(g), offset)

(***************************************************************************)
(* Game: boundary monitor and shadow spawn.                                *)
(***************************************************************************)
IsInsideCube(position) == \A a \in 1..3 : Abs(position[a]) <= CUBE_HALF_SIZE

\* PrevPos reading the newest trail sample, which is the current head
PrevPosNewest(s) ==
    IF Len(s.trail) > 0 THEN s.trail[1]
    ELSE VSub(s.head, VScale(s.direction, SEGMENT_SPACING))

\* the previous head sample as Game._checkCubeBoundary reads it from the trail
PrevPos(s) ==
    IF Len(s.trail) > 1 THEN s.trail[2]
    ELSE IF Len(s.trail) > 0 THEN s.trail[1]
    ELSE VSub(s.head, VScale(s.direction, SEGMENT_SPACING))

CrossedAxis(pos, prevPos, a) ==
    Abs(pos[a]) > CUBE_HALF_SIZE /\ Abs(prevPos[a]) <= CUBE_HALF_SIZE

UnitAxis(a, k) == [b \in 1..3 |-> IF b = a THEN k ELSE 0]

\* BoundaryCrossing with the axes tested in the order z, y, x
BoundaryCrossingZFirst(s) ==
    LET pos == s.head
        prevPos == PrevPos(s)
        hit(a) == [crossed |-> TRUE,
                   wallHitPoint |-> [pos EXCEPT ![a] = Sign(pos[a]) * CUBE_HALF_SIZE],
                   normal |-> UnitAxis(a, -Sign(pos[a])), axis |-> a]
        none == [crossed |-> FALSE, wallHitPoint |-> NoPos,
                 normal |-> <<0, 0, 0>>, axis |-> 0]
    IN  IF ~IsInsideCube(prevPos) \/ IsInsideCube(pos) THEN none
        ELSE IF CrossedAxis(pos, prevPos, 3) THEN hit(3)
        ELSE IF CrossedAxis(pos, prevPos, 2) THEN hit(2)
        ELSE IF CrossedAxis(pos, prevPos, 1) THEN hit(1)
        ELSE [none EXCEPT !.crossed = TRUE]

\* what Game._checkCubeBoundary finds for the player: whether the head left
\* the cube since the previous sample, the wall hit point (NoPos when no axis
\* test matched) and the inward normal
BoundaryCrossing(s) ==
    LET pos == s.head
        prevPos == PrevPos(s)
        hit(a) == [crossed |-> TRUE,
                   wallHitPoint |-> [pos EXCEPT ![a] = Sign(pos[a]) * CUBE_HALF_SIZE],
                   normal |-> UnitAxis(a, -Sign(pos[a])), axis |-> a]
        none == [crossed |-> FALSE, wallHitPoint |-> NoPos,
                 normal |-> <<0, 0, 0>>, axis |-> 0]
    IN  IF ~IsInsideCube(prevPos) \/ IsInsideCube(pos) THEN none
        ELSE IF CrossedAxis(pos, prevPos, 1) THEN hit(1)
        ELSE IF CrossedAxis(pos, prevPos, 2) THEN hit(2)
        ELSE IF CrossedAxis(pos, prevPos, 3) THEN hit(3)
        ELSE [none EXCEPT !.crossed = TRUE]

ShadowIdsInUse(g) ==
    {g.shadowSnakes[k].id : k \in 1..Len(g.shadowSnakes)} \cup {t.snake : t \in g.timers}

FreshShadowId(g) ==
    CHOOSE i \in 1..(Cardinality(ShadowIdsInUse(g)) + 1) : i \notin ShadowIdsInUse(g)

\* SpawnAllowed without the rate limit
SpawnAlwaysAllowed(g, currentTime) == TRUE

\* the spawn of Game._spawnShadowSnake is let through by the rate limit
SpawnAllowed(g, currentTime) ==
    ~(currentTime - g.lastShadowSpawnTime < SHADOW_SPAWN_DELAY)

\* SpawnShadowSnake leaving the invulnerability flag as it is
SpawnShadowSnakeVulnerable(g, wallHitPoint, normal, currentTime) ==
    IF ~SpawnAllowed(g, currentTime) THEN g
    ELSE LET id == FreshShadowId(g)
             n == NewSnake(g.spatialGrid, id, FALSE)
             shadow == [n.snake EXCEPT
                           !.head = [a \in 1..3 |->
                                        IF Abs(wallHitPoint[a]) >= CUBE_HALF_SIZE
                                        THEN Sign(wallHitPoint[a])
                                                 * (CUBE_HALF_SIZE - InsetAmount)
                                        ELSE wallHitPoint[a]],
                           !.facing = Reflect(g.playerSnake.facing, normal),
                           !.creationTime = currentTime,
                           !.isInitialReflectionPhase = TRUE]
         IN  [g EXCEPT !.lastShadowSpawnTime = currentTime,
                       !.spatialGrid = n.sg,
                       !.shadowSnakes = Append(@, shadow),
                       !.timers = @ \cup {[due |-> currentTime + InvulnerableMs,
                                           snake |-> id]}]

\* Game._spawnShadowSnake
SpawnShadowSnake(g, wallHitPoint, normal, currentTime) ==
    IF ~SpawnAllowed(g, currentTime) THEN g
    ELSE LET id == FreshShadowId(g)
             n == NewSnake(g.spatialGrid, id, FALSE)
             spawnPosition ==
                 [a \in 1..3 |->
                     IF Abs(wallHitPoint[a]) >= CUBE_HALF_SIZE
                     THEN Sign(wallHitPoint[a]) * (CUBE_HALF_SIZE - InsetAmount)
                     ELSE wallHitPoint[a]]
             shadow == [n.snake EXCEPT
                           !.head = spawnPosition,
                           !.facing = Reflect(g.playerSnake.facing, normal),
                           !.creationTime = currentTime,
                           !.isInitialReflectionPhase = TRUE,
                           !.speed = settings.shadowSpeed,
                           !.nibblesEaten = 0]
         IN  [g EXCEPT !.lastShadowSpawnTime = currentTime,
                       !.isShadowSnakeInvulnerable = TRUE,
                       !.spatialGrid = n.sg,
                       !.shadowSnakes = Append(@, shadow),
                       !.timers = @ \cup {[due |-> currentTime + InvulnerableMs,
                                           snake |-> id]}]

\* Game._checkCubeBoundary
CheckCubeBoundary(g, currentTime) ==
    LET c == BoundaryCrossing(g.playerSnake)
    IN  IF ~g.playerSnake.isPlayer \/ ~c.crossed THEN g
        ELSE IF c.wallHitPoint = NoPos THEN g
        ELSE SpawnShadowSnake(g, c.wallHitPoint, c.normal, currentTime)

\* PickupFor counting the pickup of a shadow snake in the score as well
PickupForScoresAll(st, k) ==
    LET g == st.g
        snake == IF k = 0 THEN g.playerSnake ELSE g.shadowSnakes[k]
        index == FindNearby(g.nibbles, snake.head)
        g1 == RemoveByIndex(g, index)
        a == AddSegment(snake, g1.spatialGrid)
        s1 == [a.snake EXCEPT !.nibblesEaten = @ + 1]
        g2 == IF k = 0
              THEN [g1 EXCEPT !.spatialGrid = a.sg, !.playerSnake = s1,
                              !.score = @ + 1]
              ELSE [g1 EXCEPT !.spatialGrid = a.sg, !.shadowSnakes[k] = s1,
                              !.score = @ + 1]
        p == Head(st.samples)
    IN  IF index = 0 THEN st
        ELSE [g |-> NibbleSpawn(g2, p),
              samples |-> Tail(st.samples),
              ok |-> st.ok /\ CanSpawnAt(g2, p) /\ snake.nibblesEaten < MaxEaten]

(***************************************************************************)
(* Game: nibble collection and reset.                                      *)
(***************************************************************************)
\* one pickup attempt of Game._checkNibbleCollection for the snake at
\* position k of the shadow list (k = 0: the player).  st.samples are the
\* positions the following NibbleManager.spawn calls end at; st.ok turns FALSE
\* when a sample cannot be the outcome of spawn or a counter leaves its bound.
PickupFor(st, k) ==
    LET g == st.g
        snake == IF k = 0 THEN g.playerSnake ELSE g.shadowSnakes[k]
        index == FindNearby(g.nibbles, snake.head)
        g1 == RemoveByIndex(g, index)
        a == AddSegment(snake, g1.spatialGrid)
        s1 == [a.snake EXCEPT !.nibblesEaten = @ + 1]
        g2 == IF k = 0
              THEN [g1 EXCEPT !.spatialGrid = a.sg, !.playerSnake = s1,
                              !.score = @ + 1]
              ELSE [g1 EXCEPT !.spatialGrid = a.sg, !.shadowSnakes[k] = s1]
        p == Head(st.samples)
    IN  IF index = 0 THEN st
        ELSE [g |-> NibbleSpawn(g2, p),
              samples |-> Tail(st.samples),
              ok |-> st.ok /\ CanSpawnAt(g2, p) /\ snake.nibblesEaten < MaxEaten]

RECURSIVE PickupShadows(_, _)
PickupShadows(st, k) ==
    IF k > Len(st.g.shadowSnakes) THEN st
    ELSE PickupShadows(PickupFor(st, k), k + 1)

\* Game._checkNibbleCollection(time), fi = Math.floor(time * 60)
CheckNibbleCollection(g, fi, samples) ==
    LET st0 == [g |-> g, samples |-> samples, ok |-> TRUE]
        st1 == IF HasSnake(g.playerSnake) THEN PickupFor(st0, 0) ELSE st0
    IN  IF HasSnake(g.playerSnake) /\ fi % 3 = 0 THEN PickupShadows(st1, 1) ELSE st1

RECURSIVE DisposeAll(_, _)
DisposeAll(sg, snakes) ==
    IF snakes = << >> THEN sg
    ELSE DisposeAll(SnakeDispose(Head(snakes), sg).sg, Tail(snakes))

\* Game._reset, with p the position the first nibble is spawned at
Reset(g, currentTime, p) ==
    LET sg1 == IF HasSnake(g.playerSnake)
               THEN SnakeDispose(g.playerSnake, g.spatialGrid).sg
               ELSE g.spatialGrid
        sg2 == DisposeAll(sg1, g.shadowSnakes)
        g1 == NibbleClear([g EXCEPT !.spatialGrid = sg2, !.shadowSnakes = << >>])
        n == NewSnake(SGClear(g1.spatialGrid), PlayerId, TRUE)
        player == SyncDirection([n.snake EXCEPT !.head = <<0, 0, 0>>,
                                                !.facing = <<-1, 0, 0>>])
        g2 == [g1 EXCEPT !.spatialGrid = n.sg, !.score = 0, !.isGameOver = FALSE,
                         !.lastSpawnTime = currentTime,
                         !.lastShadowSpawnTime = currentTime,
                         !.isShadowSnakeInvulnerable = FALSE,
                         !.playerSnake = [player EXCEPT !.nibblesEaten = 0]]
    IN  NibbleSpawn(g2, p)

(***************************************************************************)
(* Vector3Pool, and the get and release calls of the handlers.  A vector   *)
(* is a positive number; a handler's calls are a list of steps             *)
(* <<op, n>> run in order against the pool: "get" and "release" work on    *)
(* the local variable n of the handler, "getDir" and "releaseDir" on the   *)
(* targetDirection of snake n, "releaseNew" releases a vector that was     *)
(* made with new or clone (a trail point).                                 *)
(***************************************************************************)
\* Vector3Pool.maxPoolSize, 100 in the program, scaled with the trail
MaxPoolSize == 12

PoolLocals == 1..8

NoLocals == [n \in PoolLocals |-> 0]

PoolOf(p, dirs, l) ==
    [pool |-> p, dirs |-> dirs, taken |-> l.taken, aliased |-> l.aliased,
     locals |-> NoLocals]

Range(f) == {f[x] : x \in DOMAIN f}

\* new THREE.Vector3(): an object no reference of the program leads to yet
NewVector(ps) ==
    LET used == Range(ps.pool) \cup Range(ps.dirs) \cup Range(ps.locals) \cup ps.taken
    IN  CHOOSE v \in 1..(Cardinality(used) + 1) :
            v \notin used /\ \A u \in 1..(v - 1) : u \in used

\* Vector3Pool.get: this.pool.pop() || new THREE.Vector3()
PoolGet(ps) ==
    IF ps.pool # << >>
    THEN LET v == ps.pool[Len(ps.pool)]
         IN  [ps |-> [ps EXCEPT !.pool = SubSeq(@, 1, Len(@) - 1),
                                !.aliased = @ \/ v \in ps.taken,
                                !.taken = @ \cup {v}],
              vector |-> v]
    ELSE LET v == NewVector(ps)
         IN  [ps |-> [ps EXCEPT !.taken = @ \cup {v}], vector |-> v]

\* Vector3Pool.release: pushed unless the pool is full; nothing looks for
\* the vector in the pool first
PoolRelease(ps, v) ==
    [ps EXCEPT !.pool = IF Len(@) < MaxPoolSize THEN Append(@, v) ELSE @,
               !.taken = @ \ {v}]

PoolStep(ps, step) ==
    LET op == step[1]
        n == step[2]
    IN  IF op = "get"
        THEN LET r == PoolGet(ps) IN [r.ps EXCEPT !.locals[n] = r.vector]
        ELSE IF op = "release" THEN PoolRelease(ps, ps.locals[n])
        ELSE IF op = "getDir"
        THEN LET r == PoolGet(ps)
                 held == ps.dirs
             IN  [r.ps EXCEPT !.dirs = [x \in DOMAIN held \cup {n} |->
                                           IF x = n THEN r.vector ELSE held[x]]]
        ELSE IF op = "releaseDir" THEN PoolRelease(ps, ps.dirs[n])
        ELSE PoolRelease(ps, NewVector(ps))

RECURSIVE PoolRun(_, _)
PoolRun(ps, script) ==
    IF script = << >> THEN ps
    ELSE PoolRun(PoolStep(ps, Head(script)), Tail(script))

RECURSIVE Repeat(_, _)
Repeat(script, k) == IF k <= 0 THEN << >> ELSE script \o Repeat(script, k - 1)

\* the rounds of a loop that takes and releases locals, as far as the pool
\* can tell them apart: a round leaves the pool as the round two before it
Rounds(k) == IF k <= 2 THEN k ELSE 2 - (k % 2)

Borrow(n) == <<<<"get", n>>, <<"release", n>>>>

BorrowTwo == <<<<"get", 1>>, <<"get", 2>>, <<"release", 1>>, <<"release", 2>>>>

\* Snake._updateVisualSegments: direction, and segmentPos for every visual
\* segment when the path has no length
UpdateVisualScript(s) ==
    IF Len(s.segments) = 0 \/ Len(s.trail) = 0 THEN << >>
    ELSE <<<<"get", 1>>>>
         \o (IF PathLength(s.trail) > 0 THEN << >>
             ELSE Repeat(Borrow(2), Rounds(Len(s.segments))))
         \o <<<<"release", 1>>>>

\* Snake.update, the calls of one update: _seekNibbles (directionToNibble,
\* verticalDirection) and _avoidWalls (steer) of a shadow snake whose head
\* moved to moved, _updateVisualSegments, and direction and segmentPos of
\* the segment loop; s is the snake before the update, after the snake after
SnakeUpdateScript(s, after, ns, moved) ==
    LET closest == ClosestNibble(ns, moved, NoPos)
        seek == IF /\ ~s.isInitialReflectionPhase
                   /\ ns # << >> /\ closest # NoPos
                   /\ ~DistAtMost(moved, closest, SeekSlowDistance)
                THEN BorrowTwo ELSE << >>
    IN  (IF s.isPlayer THEN << >> ELSE seek \o Borrow(1))
        \o UpdateVisualScript(after)
        \o (IF PathLength(after.trail) > 0 THEN << >>
            ELSE Repeat(BorrowTwo, Rounds(Len(after.segments))))

\* this.shadowSnakes.forEach(...): the updates of a frame, in list order
RECURSIVE ShadowsUpdateScript(_, _, _, _)
ShadowsUpdateScript(before, after, ts, k) ==
    IF k > Len(before) THEN << >>
    ELSE (IF frameIndex % 2 = (k - 1) % 2
          THEN SnakeUpdateScript(before[k], after[k], nibbles, ts[k])
          ELSE << >>)
         \o ShadowsUpdateScript(before, after, ts, k + 1)

\* new Snake(...): targetDirection in the constructor, then _init, which
\* ends with _updateVisualSegments
NewSnakeScript(s) == <<<<"getDir", s.id>>>> \o UpdateVisualScript(s)

\* Snake.dispose of a snake whose trail holds points points
DisposeScript(id, points) ==
    <<<<"releaseDir", id>>>> \o Repeat(<<<<"releaseNew", 0>>>>, points)

RECURSIVE DisposeAllScript(_)
DisposeAllScript(snakes) ==
    IF snakes = << >> THEN << >>
    ELSE DisposeScript(Head(snakes).id, Len(Head(snakes).trail))
         \o DisposeAllScript(Tail(snakes))

\* NibbleManager.spawn: position, taken in every round of the loop and
\* released before the next one or after the loop
SpawnScript == Borrow(1)

\* Game._reset: the snakes are disposed, the player snake is made anew
\* (after), the first nibble is spawned
ResetScript(g, after) ==
    (IF HasSnake(g.playerSnake)
     THEN DisposeScript(g.playerSnake.id, Len(g.playerSnake.trail)) ELSE << >>)
    \o DisposeAllScript(g.shadowSnakes)
    \o NewSnakeScript(after)
    \o SpawnScript

\* Game._checkCubeBoundary and Game._spawnShadowSnake: normal, wallHitPoint,
\* the new snake (spawned, if one was made), spawnPosition, playerDirection,
\* reflectedDirection, lookAtPos
BoundaryScript(c, allowed, spawned) ==
    IF ~c.crossed THEN << >>
    ELSE <<<<"get", 3>>>>
         \o (IF c.wallHitPoint = NoPos THEN << >>
             ELSE <<<<"get", 4>>>>
                  \o (IF ~allowed THEN << >>
                      ELSE NewSnakeScript(spawned)
                           \o <<<<"get", 5>>, <<"get", 6>>, <<"get", 7>>, <<"get", 8>>,
                                <<"release", 5>>, <<"release", 6>>, <<"release", 7>>,
                                <<"release", 8>>>>)
                  \o <<<<"release", 4>>>>)
         \o <<<<"release", 3>>>>

\* Game._dissolveSnake, the dispose calls of one run of _checkCollisions:
\* log lists the snakes dissolved, in order; the trail of a snake that was
\* disposed before is empty
RECURSIVE DissolveScript(_, _)
DissolveScript(log, seen) ==
    IF log = << >> THEN << >>
    ELSE DisposeScript(Head(log).id,
                       IF Head(log).id \in seen THEN 0 ELSE Head(log).points)
         \o DissolveScript(Tail(log), seen \cup {Head(log).id})

PoolKept == UNCHANGED <<pool, targetDirection, lent, poolTracked>>

\* the calls of a handler take effect; the snakes that are neither the
\* player snake nor in the list of shadow snakes afterwards are garbage
PoolTraffic(script) ==
    /\ IF poolTracked
       THEN LET ps == PoolRun(PoolOf(pool, targetDirection, lent), script)
                live == (IF HasSnake(playerSnake') THEN {playerSnake'.id} ELSE {})
                            \cup {shadowSnakes'[k].id : k \in 1..Len(shadowSnakes')}
            IN  /\ pool' = ps.pool
                /\ targetDirection' = Restrict(ps.dirs, live \cap DOMAIN ps.dirs)
                /\ lent' = [taken |-> ps.taken, aliased |-> ps.aliased]
       ELSE UNCHANGED <<pool, targetDirection, lent>>
    /\ UNCHANGED poolTracked

(***************************************************************************)
(* Inputs of the model: where a head can be after one update, where a      *)
(* nibble sample can fall, the frame counter of a frame.                   *)
(***************************************************************************)
PlayerTargets == {<<0, 0, 0>>, <<300, 0, 0>>, <<510, 0, 0>>}

ShadowTargets == {<<300, 0, 0>>, <<0, 0, 0>>}

NibbleSamples == {<<-300, 0, 0>>, <<490, 0, 0>>}

DropOffsets == {<<0, 0, 0>>, <<5, -5, 0>>}

FrameIndices == 0..3

NoCrossing ==
    [crossed |-> FALSE, wallHitPoint |-> NoPos, normal |-> <<0, 0, 0>>,
     axis |-> 0, spawned |-> FALSE]

HarnessKept == UNCHANGED <<insertedAt, lastOp, spawnLoop, grown, settings, slither>>

HarnessUnchanged == HarnessKept /\ PoolKept

PickupKept == UNCHANGED <<insertedAt, lastOp, spawnLoop, settings, slither>>

PickupUnchanged == PickupKept /\ PoolKept

\* the segments that Snake.addSegment appended between g and g2
GrownObjects(g, g2) ==
    (IF Len(g2.playerSnake.segments) > Len(g.playerSnake.segments)
     THEN {SegObj(g2.playerSnake.id, Len(g2.playerSnake.segments))} ELSE {})
    \cup {SegObj(g2.shadowSnakes[k].id, Len(g2.shadowSnakes[k].segments)) :
             k \in {j \in 1..Len(g.shadowSnakes) :
                       Len(g2.shadowSnakes[j].segments) > Len(g.shadowSnakes[j].segments)}}

KeepCollisions == UNCHANGED lastCollisions

(***************************************************************************)
(* Initial state: the Game constructor and Game.init (splash screen).      *)
(***************************************************************************)
InitGame ==
    /\ spatialGrid = EmptyGrid
    /\ insertedAt = << >>
    /\ lastOp = [op |-> "new", object |-> <<"none", 0, 0>>, tracked |-> FALSE]
    /\ isGameOver = FALSE
    /\ gameStarted = FALSE
    /\ isPaused = FALSE
    /\ score = 0
    /\ lastSpawnTime = 0
    /\ lastShadowSpawnTime = 0
    /\ isShadowSnakeInvulnerable = FALSE
    /\ playerSnake = NoSnake
    /\ shadowSnakes = << >>
    /\ nibbles = << >>
    /\ now = 0
    /\ timers = {}
    /\ pc = "idle"
    /\ frameIndex = 0
    /\ crossing = NoCrossing
    /\ prevHead = NoPos
    /\ windowStart = 0
    /\ lastCollisions = << >>
    /\ spawnLoop = [at |-> "idle", tries |-> 0, isSafe |-> FALSE, position |-> NoPos]
    /\ grown = {}
    /\ settings = DefaultSettings
    /\ slither = 0
    /\ pool = << >>
    /\ targetDirection = << >>
    /\ lent = [taken |-> {}, aliased |-> FALSE]

Init == InitGame /\ poolTracked = FALSE

\* the same state, of a behaviour that follows the pool
InitPool == InitGame /\ poolTracked = TRUE

(***************************************************************************)
(* Handlers outside the frame.                                             *)
(***************************************************************************)
\* Game.start (start button of the splash screen)
Start(samples) ==
    /\ pc = "idle" /\ ~gameStarted
    /\ gameStarted' = TRUE
    /\ \E p \in samples : CanSpawnAt(G, p) /\ Commit(Settle(Reset(G, now, p)))
    /\ windowStart' = now
    /\ lastCollisions' = << >>
    /\ UNCHANGED <<isPaused, now, pc, frameIndex, crossing, prevHead>>
    /\ HarnessKept
    /\ PoolTraffic(ResetScript(G, playerSnake'))

\* Game._restart (reincarnate button, restart entry of the pause menu)
Restart(samples) ==
    /\ pc = "idle" /\ gameStarted /\ (isGameOver \/ isPaused)
    /\ gameStarted' = TRUE
    /\ \E p \in samples : CanSpawnAt(G, p) /\ Commit(Settle(Reset(G, now, p)))
    /\ windowStart' = now
    /\ lastCollisions' = << >>
    /\ UNCHANGED <<isPaused, now, pc, frameIndex, crossing, prevHead>>
    /\ HarnessKept
    /\ PoolTraffic(ResetScript(G, playerSnake'))

\* Game._togglePause
TogglePause ==
    /\ pc = "idle" /\ ~isGameOver
    /\ isPaused' = ~isPaused
    /\ KeepCollisions
    /\ UNCHANGED <<spatialGrid, isGameOver, gameStarted, score, lastSpawnTime,
                   lastShadowSpawnTime, isShadowSnakeInvulnerable, playerSnake,
                   shadowSnakes, nibbles, now, timers, pc, frameIndex, crossing,
                   prevHead, windowStart>>
    /\ HarnessUnchanged

\* performance.now() advances; a due timeout callback runs first
Tick(maxTime) ==
    /\ pc = "idle" /\ now + TickMs <= maxTime
    /\ \A t \in timers : t.due > now
    /\ now' = now + TickMs
    /\ KeepCollisions
    /\ UNCHANGED <<spatialGrid, isGameOver, gameStarted, isPaused, score,
                   lastSpawnTime, lastShadowSpawnTime, isShadowSnakeInvulnerable,
                   playerSnake, shadowSnakes, nibbles, timers, pc, frameIndex,
                   crossing, prevHead, windowStart>>
    /\ HarnessUnchanged

\* the setTimeout callback of Game._spawnShadowSnake
TimerFire ==
    /\ pc \in {"idle", "disposed"}
    /\ \E t \in timers :
          /\ t.due <= now
          /\ timers' = timers \ {t}
          /\ shadowSnakes' = [k \in 1..Len(shadowSnakes) |->
                                 IF shadowSnakes[k].id = t.snake
                                 THEN [shadowSnakes[k] EXCEPT
                                          !.isInitialReflectionPhase = FALSE]
                                 ELSE shadowSnakes[k]]
    /\ isShadowSnakeInvulnerable' = FALSE
    /\ KeepCollisions
    /\ UNCHANGED <<spatialGrid, isGameOver, gameStarted, isPaused, score,
                   lastSpawnTime, lastShadowSpawnTime, playerSnake, nibbles, now,
                   pc, frameIndex, crossing, prevHead, windowStart>>
    /\ HarnessUnchanged

(***************************************************************************)
(* One frame: Game._animate calls Game._updateGameLogic, modelled as the   *)
(* steps of its body in program order.                                     *)
(***************************************************************************)
\* Running without the test of isPaused
RunningWhilePaused == gameStarted /\ ~isGameOver

Running == gameStarted /\ ~isGameOver /\ ~isPaused

\* Game._animate while the game is not started, paused or over: the frame is
\* drawn and _updateGameLogic is not called
IdleFrame ==
    /\ pc = "idle" /\ ~Running
    /\ UNCHANGED vars

\* this.playerSnake.update(delta), the slither offset drawn from wiggles
UpdatePlayerWiggle(targets, wiggles) ==
    /\ pc = "idle" /\ Running
    /\ \E target \in targets, w \in wiggles :
          LET r == SnakeUpdateWiggle(playerSnake, spatialGrid, target, w)
          IN  playerSnake' = r.snake /\ spatialGrid' = r.sg /\ slither' = w
    /\ frameIndex' \in (IF shadowSnakes = << >> THEN {0} ELSE FrameIndices)
    /\ pc' = "shadows"
    /\ prevHead' = playerSnake.head
    /\ lastCollisions' = << >>
    /\ UNCHANGED <<isGameOver, gameStarted, isPaused, score, lastSpawnTime,
                   lastShadowSpawnTime, isShadowSnakeInvulnerable, shadowSnakes,
                   nibbles, now, timers, crossing, windowStart>>
    /\ UNCHANGED <<insertedAt, lastOp, spawnLoop, grown, settings>>
    /\ PoolTraffic(SnakeUpdateScript(playerSnake, playerSnake', nibbles,
                                      playerSnake'.head))

\* this.playerSnake.update(delta) on the grid of the targets
UpdatePlayer(targets) == UpdatePlayerWiggle(targets, {0})

\* UpdateShadows updating every shadow snake in every frame
UpdateShadowsAll(targets) ==
    /\ pc = "shadows"
    /\ \E ts \in [1..Len(shadowSnakes) -> targets] :
          shadowSnakes' =
              [k \in 1..Len(shadowSnakes) |->
                  SnakeUpdate(shadowSnakes[k], spatialGrid, ts[k]).snake]
    /\ pc' = "animate"
    /\ KeepCollisions
    /\ UNCHANGED <<spatialGrid, isGameOver, gameStarted, isPaused, score,
                   lastSpawnTime, lastShadowSpawnTime, isShadowSnakeInvulnerable,
                   playerSnake, nibbles, now, timers, frameIndex, crossing,
                   prevHead, windowStart>>
    /\ HarnessUnchanged

\* this.shadowSnakes.forEach(...): every other snake is updated, the slither
\* offsets drawn from wiggles
UpdateShadowsWiggle(targets, wiggles) ==
    /\ pc = "shadows"
    /\ pc' = "animate"
    /\ KeepCollisions
    /\ UNCHANGED <<spatialGrid, isGameOver, gameStarted, isPaused, score,
                   lastSpawnTime, lastShadowSpawnTime, isShadowSnakeInvulnerable,
                   playerSnake, nibbles, now, timers, frameIndex, crossing,
                   prevHead, windowStart>>
    /\ HarnessKept
    /\ \E ts \in [1..Len(shadowSnakes) -> targets],
          ws \in [1..Len(shadowSnakes) -> wiggles] :
          /\ shadowSnakes' =
                 [k \in 1..Len(shadowSnakes) |->
                     IF frameIndex % 2 = (k - 1) % 2
                     THEN SnakeUpdateWiggle(shadowSnakes[k], spatialGrid,
                                            ts[k], ws[k]).snake
                     ELSE shadowSnakes[k]]
          /\ PoolTraffic(ShadowsUpdateScript(shadowSnakes, shadowSnakes', ts, 1))

\* this.shadowSnakes.forEach(...): every other snake is updated
UpdateShadows(targets) ==
    /\ pc = "shadows"
    /\ pc' = "animate"
    /\ KeepCollisions
    /\ UNCHANGED <<spatialGrid, isGameOver, gameStarted, isPaused, score,
                   lastSpawnTime, lastShadowSpawnTime, isShadowSnakeInvulnerable,
                   playerSnake, nibbles, now, timers, frameIndex, crossing,
                   prevHead, windowStart>>
    /\ HarnessKept
    /\ \E ts \in [1..Len(shadowSnakes) -> targets] :
          /\ shadowSnakes' =
                 [k \in 1..Len(shadowSnakes) |->
                     IF frameIndex % 2 = (k - 1) % 2
                     THEN SnakeUpdate(shadowSnakes[k], spatialGrid, ts[k]).snake
                     ELSE shadowSnakes[k]]
          /\ PoolTraffic(ShadowsUpdateScript(shadowSnakes, shadowSnakes', ts, 1))

\* this.nibbleManager.animate(time, delta): the nibbles pulse and their glow
\* turns; no position, list or grid entry changes
AnimateNibbles ==
    /\ pc = "animate"
    /\ pc' = "boundary"
    /\ Commit(G)
    /\ KeepCollisions
    /\ UNCHANGED <<gameStarted, isPaused, now, frameIndex, crossing, prevHead,
                   windowStart>>
    /\ HarnessUnchanged

\* CheckBoundary going on to the spawn timer, past the pickup check
CheckBoundarySkipsPickup ==
    /\ pc = "boundary"
    /\ pc' = "spawnTimer"
    /\ Commit(CheckCubeBoundary(G, now))
    /\ KeepCollisions
    /\ UNCHANGED <<gameStarted, isPaused, now, frameIndex, crossing, prevHead,
                   windowStart>>
    /\ HarnessUnchanged

\* this._checkCubeBoundary(), in a game of at most maxShadows shadow snakes
CheckBoundaryWithin(maxShadows) ==
    /\ pc = "boundary"
    /\ LET c == BoundaryCrossing(playerSnake)
           g == CheckCubeBoundary(G, now)
           spawned == Len(g.shadowSnakes) > Len(shadowSnakes)
       IN  /\ Len(g.shadowSnakes) <= maxShadows
           /\ Commit(g)
           /\ crossing' = [crossed |-> c.crossed, wallHitPoint |-> c.wallHitPoint,
                           normal |-> c.normal, axis |-> c.axis, spawned |-> spawned]
           /\ windowStart' = IF spawned THEN now ELSE windowStart
           /\ PoolTraffic(BoundaryScript(c, spawned,
                              IF spawned THEN g.shadowSnakes[Len(g.shadowSnakes)]
                              ELSE NoSnake))
    /\ pc' = "pickup"
    /\ KeepCollisions
    /\ UNCHANGED <<gameStarted, isPaused, now, frameIndex, prevHead>>
    /\ HarnessKept

CheckBoundary == CheckBoundaryWithin(MaxShadows)

\* this._checkNibbleCollection(time)
CollectNibbles(samples) ==
    /\ pc = "pickup"
    /\ \E ps \in [1..(Len(shadowSnakes) + 1) -> samples] :
          LET st == CheckNibbleCollection(G, frameIndex, ps)
          IN  /\ st.ok
              /\ \A k \in 1..Len(st.samples) :
                     st.samples[k] = (CHOOSE p \in samples : TRUE)
              /\ Commit(st.g)
              /\ grown' = GrownObjects(G, st.g)
              /\ PoolTraffic(IF GrownObjects(G, st.g) # {} THEN SpawnScript
                             ELSE << >>)
    /\ pc' = "spawnTimer"
    /\ KeepCollisions
    /\ UNCHANGED <<gameStarted, isPaused, now, frameIndex, crossing, prevHead,
                   windowStart>>
    /\ PickupKept

\* the nibble spawn timer of Game._updateGameLogic
SpawnDue == (now - lastSpawnTime) * SpawnRate > SPAWN_INTERVAL

SpawnNibbles(samples) ==
    /\ pc = "spawnTimer"
    /\ IF SpawnDue
       THEN /\ Len(nibbles) < MaxNibbles
            /\ \E p \in samples :
                  /\ CanSpawnAt(G, p)
                  /\ Commit([NibbleSpawn(G, p) EXCEPT !.lastSpawnTime = now])
       ELSE Commit(G)
    /\ pc' = "collisions"
    /\ KeepCollisions
    /\ UNCHANGED <<gameStarted, isPaused, now, frameIndex, crossing, prevHead,
                   windowStart>>
    /\ HarnessKept
    /\ PoolTraffic(IF SpawnDue THEN SpawnScript ELSE << >>)

\* if (this.playerSnake && !this.isShadowSnakeInvulnerable) this._checkCollisions()
ResolveFrame ==
    /\ pc = "collisions"
    /\ IF HasSnake(playerSnake) /\ ~isShadowSnakeInvulnerable
       THEN \E offset \in (IF shadowSnakes = << >> THEN {<<0, 0, 0>>} ELSE DropOffsets) :
                LET g == GameCheckCollisions(G, offset)
                IN  Commit(Settle(g)) /\ PoolTraffic(DissolveScript(g.disposals, {}))
       ELSE Commit(Settle(G)) /\ PoolTraffic(<< >>)
    /\ lastCollisions' = IF HasSnake(playerSnake) /\ ~isShadowSnakeInvulnerable
                         THEN EventLog(CheckCollisions(G))
                         ELSE << >>
    /\ pc' = "idle"
    /\ frameIndex' = 0
    /\ crossing' = NoCrossing
    /\ prevHead' = NoPos
    /\ grown' = {}
    /\ UNCHANGED <<gameStarted, isPaused, now, windowStart>>
    /\ PickupKept

\* GameDispose leaving the nibbles in the grid
GameDisposeKeepsNibbles(g) ==
    LET d == IF HasSnake(g.playerSnake)
             THEN SnakeDispose(g.playerSnake, g.spatialGrid)
             ELSE [snake |-> g.playerSnake, sg |-> g.spatialGrid]
    IN  [g EXCEPT !.playerSnake = d.snake,
                  !.spatialGrid = DisposeAll(d.sg, g.shadowSnakes)]

\* Game.dispose: the systems part.  The player snake, the shadow snakes and
\* the nibble manager are disposed; the lists of snakes are kept.
GameDispose(g) ==
    LET d == IF HasSnake(g.playerSnake)
             THEN SnakeDispose(g.playerSnake, g.spatialGrid)
             ELSE [snake |-> g.playerSnake, sg |-> g.spatialGrid]
        sg2 == DisposeAll(d.sg, g.shadowSnakes)
    IN  NibbleClear([g EXCEPT !.playerSnake = d.snake,
                              !.shadowSnakes = [k \in 1..Len(@) |->
                                                   SnakeDispose(@[k], sg2).snake],
                              !.spatialGrid = sg2])

\* Game.dispose, called between two frames: cancelAnimationFrame takes the
\* pending frame callback away, then the systems are disposed
Dispose ==
    /\ pc = "idle"
    /\ pc' = "disposed"
    /\ Commit(GameDispose(G))
    /\ KeepCollisions
    /\ UNCHANGED <<gameStarted, isPaused, now, frameIndex, crossing, prevHead,
                   windowStart>>
    /\ HarnessUnchanged

Next ==
    \/ Dispose
    \/ IdleFrame
    \/ Start(NibbleSamples)
    \/ Restart(NibbleSamples)
    \/ TogglePause
    \/ Tick(MaxTime)
    \/ TimerFire
    \/ UpdatePlayer(PlayerTargets)
    \/ UpdateShadows(ShadowTargets)
    \/ AnimateNibbles
    \/ CheckBoundary
    \/ CollectNibbles(NibbleSamples)
    \/ SpawnNibbles(NibbleSamples)
    \/ ResolveFrame

Spec == Init /\ [][Next]_vars

(***************************************************************************)
(* SpatialGrid on its own: any sequence of insert, remove and clear calls.  *)
(* insertedAt remembers the position of the last insert of every object    *)
(* that was not removed since; lastOp is the last call.                    *)
(***************************************************************************)
GridObjects == {HeadObj(0), SegObj(0, 1), NibObj(1)}

GridPositions ==
    {<<0, 0, 0>>, <<99, 0, 0>>, <<100, 0, 0>>, <<-1, 0, 0>>, <<-100, 250, -101>>}

QueryPoints == GridPositions \cup {<<-36, 0, 0>>, <<200, 0, 0>>, <<0, 249, -100>>}

Radii == {0, 1, 18, 36, 100, 101}

GameUnchanged ==
    UNCHANGED <<isGameOver, gameStarted, isPaused, score, lastSpawnTime,
                lastShadowSpawnTime, isShadowSnakeInvulnerable, playerSnake,
                shadowSnakes, nibbles, now, timers, pc, frameIndex, crossing,
                prevHead, windowStart, lastCollisions, spawnLoop, grown, settings, slither,
                pool, targetDirection, lent, poolTracked>>

\* spatialGrid.insert(object, position)
GridInsert ==
    /\ \E e \in GridObjects, p \in GridPositions :
          /\ spatialGrid' = SGInsert(spatialGrid, e, p)
          /\ insertedAt' = (e :> p) @@ insertedAt
          /\ lastOp' = [op |-> "insert", object |-> e,
                        tracked |-> e \in DOMAIN insertedAt]
    /\ GameUnchanged

\* spatialGrid.remove(object)
GridRemove ==
    /\ \E e \in GridObjects :
          /\ spatialGrid' = SGRemove(spatialGrid, e)
          /\ insertedAt' = Restrict(insertedAt, DOMAIN insertedAt \ {e})
          /\ lastOp' = [op |-> "remove", object |-> e,
                        tracked |-> e \in DOMAIN insertedAt]
    /\ GameUnchanged

\* spatialGrid.clear()
GridClear ==
    /\ spatialGrid' = SGClear(spatialGrid)
    /\ insertedAt' = << >>
    /\ lastOp' = [op |-> "clear", object |-> <<"none", 0, 0>>, tracked |-> FALSE]
    /\ GameUnchanged

NextGrid == GridInsert \/ GridRemove \/ GridClear

SpecGrid == Init /\ [][NextGrid]_vars

Returned(sg, p, r, e) == SeqHas(SGGetNearby(sg, p, r), e)

\* C5: after insert(E, P), getNearby(P, r) contains E for every radius r >= 0,
\* as long as E was neither removed nor inserted again elsewhere (insertedAt
\* holds the position of the last insert of every object still tracked).
C5_InsertedIsFound ==
    \A e \in DOMAIN insertedAt : \A r \in Radii :
        Returned(spatialGrid, insertedAt[e], r, e)

\* C5 witness: an object was inserted again at another position, in a cell
\* with negative coordinates, while another object is tracked as well.
C5_Witness ==
    /\ lastOp.op = "insert" /\ lastOp.tracked
    /\ insertedAt[lastOp.object] = <<-100, 250, -101>>
    /\ Cardinality(DOMAIN insertedAt) >= 2
    /\ Returned(spatialGrid, <<-100, 250, -101>>, 0, lastOp.object)

NotTrackedNotReturned ==
    \A e \in GridObjects \ DOMAIN insertedAt : \A p \in QueryPoints : \A r \in Radii :
        ~Returned(spatialGrid, p, r, e)

RemoveAbsentIsNoOp ==
    (lastOp'.op = "remove" /\ lastOp' # lastOp /\ ~lastOp'.tracked)
        => spatialGrid' = spatialGrid

\* C6: after remove(E) no getNearby query returns E until E is inserted
\* again, and removing an object that is not tracked leaves the grid as it
\* was.
C6_RemovedIsGone == [](NotTrackedNotReturned) /\ [][RemoveAbsentIsNoOp]_vars

\* C6 witness: a tracked object was removed from a cell that still holds
\* another object; a query around that cell returns only the other one.
C6_Witness ==
    /\ lastOp.op = "remove" /\ lastOp.tracked
    /\ \E e \in DOMAIN insertedAt :
          /\ Returned(spatialGrid, insertedAt[e], 0, e)
          /\ ~Returned(spatialGrid, insertedAt[e], 0, lastOp.object)
          /\ Len(SGGetNearby(spatialGrid, insertedAt[e], 0)) = 1

(***************************************************************************)
(* Properties of collision resolution.                                     *)
(***************************************************************************)
Near(a, b) == DistLess(a, b, COLLISION_DISTANCE)

NearGeometry(p, s) ==
    Near(p, s.head) \/ \E i \in 1..Len(s.segments) : Near(p, s.segments[i])

NearShadowGeometry ==
    \E k \in 1..Len(shadowSnakes) : NearGeometry(playerSnake.head, shadowSnakes[k])

\* Game._checkCollisions is about to run in this frame
ResolutionRuns ==
    pc = "collisions" /\ HasSnake(playerSnake) /\ ~isShadowSnakeInvulnerable

\* C1: whenever collision resolution runs while the player's head is closer
\* than COLLISION_DISTANCE to a shadow snake's head or to one of its segments,
\* the player is dissolved in that frame and the game is over.
C1_NearShadowIsGameOver ==
    [][(ResolutionRuns /\ NearShadowGeometry) => isGameOver']_vars

\* list index i (from 0) is position i + 1 of the sequence
NearOwnSegment(s, lo, hi) ==
    \E i \in 1..Len(s.segments) :
        i - 1 >= lo /\ i - 1 <= hi /\ Near(s.head, s.segments[i])

Alive(id, shadows) == \E k \in 1..Len(shadows) : shadows[k].id = id

\* C2: whenever collision resolution runs for a snake whose head is closer
\* than COLLISION_DISTANCE to one of its own segments at list index >= 10,
\* that snake is dissolved in that frame.
C2_SelfHitDissolves ==
    [][ResolutionRuns =>
          /\ NearOwnSegment(playerSnake, SelfSkip, Len(playerSnake.segments))
                => isGameOver'
          /\ \A k \in 1..Len(shadowSnakes) :
                NearOwnSegment(shadowSnakes[k], SelfSkip, Len(shadowSnakes[k].segments))
                    => ~Alive(shadowSnakes[k].id, shadowSnakes')]_vars

\* the head of s is near nothing of the other snakes and near none of its
\* own segments from index 10 on
OnlyOwnLowSegmentsNear(s, others) ==
    /\ NearOwnSegment(s, 0, SelfSkip - 1)
    /\ ~NearOwnSegment(s, SelfSkip, Len(s.segments))
    /\ \A k \in 1..Len(others) :
          others[k].id # s.id => ~NearGeometry(s.head, others[k])

\* C3: a snake whose head is within COLLISION_DISTANCE only of its own
\* segments at list index < 10 is not dissolved by the collision resolution
\* of that frame (whatever nibbles lie around).
C3_ExemptNotDissolved ==
    [][ResolutionRuns =>
          /\ OnlyOwnLowSegmentsNear(playerSnake, shadowSnakes) => ~isGameOver'
          /\ \A k \in 1..Len(shadowSnakes) :
                OnlyOwnLowSegmentsNear(shadowSnakes[k],
                                       <<playerSnake>> \o shadowSnakes)
                    => Alive(shadowSnakes[k].id, shadowSnakes')]_vars

\* C3 witness: the resolution of the last frame handled an event between a
\* shadow snake's head and one of its own first ten segments, and the snake
\* is still there, its head still next to that segment.
C3_Witness ==
    /\ pc = "idle" /\ ~isGameOver
    /\ \E k \in 1..Len(shadowSnakes), e \in 1..Len(lastCollisions) :
          /\ lastCollisions[e].type = "shadow_collision"
          /\ lastCollisions[e].snake = shadowSnakes[k].id
          /\ IsSegmentOf(shadowSnakes[k], lastCollisions[e].object)
          /\ lastCollisions[e].object[3] - 1 < SelfSkip
          /\ Near(shadowSnakes[k].head,
                  shadowSnakes[k].segments[lastCollisions[e].object[3]])
          /\ OnlyOwnLowSegmentsNear(shadowSnakes[k], <<playerSnake>> \o shadowSnakes)

(***************************************************************************)
(* The grid follows the entities.                                          *)
(***************************************************************************)
RecordedAt(sg, object, position) ==
    /\ object \in DOMAIN sg.objectMap
    /\ sg.objectMap[object] = GetGridKey(position)
    /\ GetGridKey(position) \in DOMAIN sg.grid
    /\ SeqHas(sg.grid[GetGridKey(position)], object)

SnakeRecorded(sg, s) ==
    /\ RecordedAt(sg, HeadObj(s.id), s.head)
    /\ \A i \in 1..Len(s.segments) : RecordedAt(sg, SegObj(s.id, i), s.segments[i])

\* C4: at the end of every frame of active play the player's head and
\* segments, every shadow snake's head and segments and every nibble are
\* recorded in the cell floor(pos / cellSize) of their current position.
C4_GridFollowsEntities ==
    (pc = "idle" /\ gameStarted /\ ~isGameOver) =>
        /\ SnakeRecorded(spatialGrid, playerSnake)
        /\ \A k \in 1..Len(shadowSnakes) : SnakeRecorded(spatialGrid, shadowSnakes[k])
        /\ \A k \in 1..Len(nibbles) :
              RecordedAt(spatialGrid, NibObj(nibbles[k].id), nibbles[k].pos)

(***************************************************************************)
(* Shadow spawn rate limit.                                                *)
(***************************************************************************)
ShadowSpawned == Len(shadowSnakes') > Len(shadowSnakes)

EligibleCrossing == crossing'.crossed /\ crossing'.wallHitPoint # NoPos

\* C9: a shadow snake is spawned only when at least SHADOW_SPAWN_DELAY ms
\* have passed since the last spawn and since the last reset (windowStart),
\* so two spawns are never closer than that; and a crossing that comes when
\* that time has passed does spawn, whatever blocked crossings came before:
\* a blocked crossing does not restart the window.
C9_SpawnRateLimited ==
    [][/\ ShadowSpawned =>
              pc = "boundary" /\ now - windowStart >= SHADOW_SPAWN_DELAY
       /\ (pc = "boundary" /\ EligibleCrossing
             /\ now - windowStart >= SHADOW_SPAWN_DELAY) => ShadowSpawned]_vars

\* C9 witness: the player left the cube 1500 ms after a shadow snake was
\* spawned, and the crossing spawned nothing.
C9_Witness ==
    /\ pc = "pickup"
    /\ crossing.crossed /\ crossing.wallHitPoint # NoPos /\ ~crossing.spawned
    /\ Len(shadowSnakes) = 1
    /\ shadowSnakes[1].creationTime = windowStart
    /\ now - windowStart > 0 /\ now - windowStart < SHADOW_SPAWN_DELAY

(***************************************************************************)
(* The boundary monitor in three dimensions: the player's head jumps       *)
(* between points inside and outside the cube, on one axis or on several;  *)
(* the clock stands still.                                                 *)
(***************************************************************************)
BoundaryTargets ==
    {<<0, 0, 0>>, <<490, 0, 0>>, <<510, 0, 0>>, <<-510, 0, 0>>, <<510, -510, 0>>,
     <<0, -510, 0>>, <<0, 0, 510>>, <<0, -510, 510>>, <<500, 500, -500>>}

NextBoundary ==
    \/ Start(NibbleSamples)
    \/ UpdatePlayer(BoundaryTargets)
    \/ UpdateShadows(ShadowTargets)
    \/ AnimateNibbles
    \/ CheckBoundary
    \/ CollectNibbles(NibbleSamples)
    \/ SpawnNibbles(NibbleSamples)
    \/ ResolveFrame

SpecBoundary == Init /\ [][NextBoundary]_vars

InArena(p) == \A a \in 1..3 : p[a] >= -CUBE_HALF_SIZE /\ p[a] <= CUBE_HALF_SIZE

\* C7: a crossing event fires in a frame exactly when the player's head was
\* inside the arena at the previous frame and is outside now; a head that
\* stays outside, comes back in or stays inside fires nothing.
C7_EdgeTriggered ==
    pc = "pickup" =>
        ((crossing.crossed /\ crossing.wallHitPoint # NoPos)
            <=> (InArena(prevHead) /\ ~InArena(playerSnake.head)))

\* C7 witness: the head was outside at the previous frame, has moved and is
\* still outside, and the monitor reported no crossing.
C7_Witness ==
    /\ pc = "pickup" /\ ~crossing.crossed
    /\ prevHead # NoPos /\ ~InArena(prevHead) /\ ~InArena(playerSnake.head)
    /\ prevHead # playerSnake.head

ExitsOn(a) ==
    Abs(prevHead[a]) <= CUBE_HALF_SIZE /\ Abs(playerSnake.head[a]) > CUBE_HALF_SIZE

\* C8: on a crossing the reported axis is the first of x, y, z on which the
\* head went from |prev| <= half to |pos| > half; wallHitPoint is the head
\* position with that coordinate set to sign * half, normal is -sign on that
\* axis and 0 elsewhere; there always is such an axis.
C8_FirstAxisHit ==
    (pc = "pickup" /\ crossing.crossed) =>
        /\ \E a \in 1..3 : ExitsOn(a)
        /\ LET a == CHOOSE a \in 1..3 : ExitsOn(a) /\ \A b \in 1..(a - 1) : ~ExitsOn(b)
               sign == IF playerSnake.head[a] > 0 THEN 1 ELSE -1
           IN  /\ crossing.axis = a
               /\ crossing.wallHitPoint =
                      [k \in 1..3 |-> IF k = a THEN sign * CUBE_HALF_SIZE
                                      ELSE playerSnake.head[k]]
               /\ crossing.normal = [k \in 1..3 |-> IF k = a THEN -sign ELSE 0]

\* C8 witness: the head left through the x and the y face in one step; the
\* x face is reported.
C8_Witness ==
    /\ pc = "pickup" /\ crossing.crossed
    /\ prevHead = <<0, 0, 0>> /\ playerSnake.head = <<510, -510, 0>>
    /\ crossing.axis = 1
    /\ crossing.wallHitPoint = <<500, -510, 0>>
    /\ crossing.normal = <<-1, 0, 0>>

(***************************************************************************)
(* Nibble collection: the player stays inside the cube, around two nibble  *)
(* positions that lie within pickup range of one head position.            *)
(***************************************************************************)
PickupTargets == {<<0, 0, 0>>, <<300, 0, 0>>, <<310, 0, 0>>}

PickupSamples == {<<290, 0, 0>>, <<310, 0, 0>>, <<490, 0, 0>>}

NextPickup ==
    \/ Start(PickupSamples)
    \/ Restart(PickupSamples)
    \/ TogglePause
    \/ Tick(PickupMaxTime)
    \/ UpdatePlayer(PickupTargets)
    \/ UpdateShadows(ShadowTargets)
    \/ AnimateNibbles
    \/ CheckBoundary
    \/ CollectNibbles(PickupSamples)
    \/ SpawnNibbles(PickupSamples)
    \/ ResolveFrame

SpecPickup == Init /\ [][NextPickup]_vars

InReach(n, s) == DistSq(s.head, n.pos) < PickupThreshold

\* nibble n of the field is gone after the step (its id may have been given
\* to a nibble created in this frame)
Removed(n) ==
    /\ ~\E k \in 1..Len(nibbles') : nibbles'[k].id = n.id /\ ~nibbles'[k].fresh
    /\ NibObj(n.id) \in DOMAIN spatialGrid'.objectMap
          => \E k \in 1..Len(nibbles') : nibbles'[k].id = n.id /\ nibbles'[k].fresh

InReachOfShadow(n) == \E k \in 1..Len(shadowSnakes) : InReach(n, shadowSnakes[k])

\* a nibble out of reach of every head stays, and the player's counter moves
\* only for a nibble in the player's reach
OutOfReachStays ==
    /\ \A k \in 1..Len(nibbles) :
          ~InReach(nibbles[k], playerSnake) /\ ~InReachOfShadow(nibbles[k])
              => ~Removed(nibbles[k])
    /\ playerSnake'.nibblesEaten # playerSnake.nibblesEaten
          => \E k \in 1..Len(nibbles) :
                InReach(nibbles[k], playerSnake) /\ Removed(nibbles[k])

Dissolved == {k \in 1..Len(shadowSnakes) : ~Alive(shadowSnakes[k].id, shadowSnakes')}

\* C11: when collision resolution dissolves one shadow snake and nothing
\* else in a frame, the nibble list grows by exactly the number of segments
\* of that snake, however many collision events name it.
C11_ShadowDropsItsSegments ==
    [][(ResolutionRuns /\ ~isGameOver') =>
          \A k \in 1..Len(shadowSnakes) :
              Dissolved = {k} =>
                  Len(nibbles') = Len(nibbles) + Len(shadowSnakes[k].segments)]_vars

(***************************************************************************)
(* The game with the first nibble lying where the player passes, so that    *)
(* the player has eaten when it meets a shadow snake.                      *)
(***************************************************************************)
DissolveSamples == {<<300, 0, 0>>}

DissolveShadowTargets == {<<0, 0, 0>>}

NextDissolve ==
    \/ Start(DissolveSamples)
    \/ Tick(MaxTime)
    \/ TimerFire
    \/ UpdatePlayer(PlayerTargets)
    \/ UpdateShadows(DissolveShadowTargets)
    \/ AnimateNibbles
    \/ CheckBoundary
    \/ CollectNibbles(NibbleSamples)
    \/ SpawnNibbles(NibbleSamples)
    \/ ResolveFrame

SpecDissolve == Init /\ [][NextDissolve]_vars

\* the step dissolves the player
PlayerDissolved == ResolutionRuns /\ ~isGameOver /\ isGameOver'

\* the nibbles of the field after the step are those before it followed by
\* n nibbles at the first n positions of the list
DroppedAt(positions, n) ==
    /\ Len(nibbles') = Len(nibbles) + n
    /\ \A k \in 1..Len(nibbles) : nibbles'[k].pos = nibbles[k].pos
    /\ \A i \in 1..n : nibbles'[Len(nibbles) + i].pos = positions[i]

\* C12: dissolving the player adds exactly min(segments.length, nibblesEaten)
\* nibbles to the field, at the unshifted positions of the first segments of
\* its list.
C12_PlayerDropsWhatItAte ==
    [][PlayerDissolved =>
          DroppedAt(playerSnake.segments,
                    Min(Len(playerSnake.segments), playerSnake.nibblesEaten))]_vars

\* C12 witness: the game is over for a player that had eaten between one
\* nibble and fewer than it has segments, and the last nibbles of the field
\* lie on its first segments.
C12_Witness ==
    /\ pc = "idle" /\ isGameOver
    /\ playerSnake.nibblesEaten >= 1
    /\ playerSnake.nibblesEaten < Len(playerSnake.segments)
    /\ Len(nibbles) >= playerSnake.nibblesEaten
    /\ \A i \in 1..playerSnake.nibblesEaten :
          nibbles[Len(nibbles) - playerSnake.nibblesEaten + i].pos
              = playerSnake.segments[i]

(***************************************************************************)
(* NibbleManager.spawn, sample by sample.  The nibble spawn timer of the   *)
(* frame starts the loop; every step draws one point.                      *)
(***************************************************************************)
MaxTries == 100

SpawnTriesCap == 103

SpawnTargets == {<<300, 0, 0>>, <<0, 0, 0>>}

SpawnSamples == {<<499, 0, 0>>, <<0, 0, 0>>, <<310, 0, 0>>}

SpawnRest ==
    UNCHANGED <<insertedAt, lastOp, grown, settings, slither, pool, targetDirection,
                lent, poolTracked, gameStarted, isPaused, now, frameIndex, crossing,
                prevHead, windowStart, lastCollisions>>

\* the spawn timer test of Game._updateGameLogic; when the time has come,
\* NibbleManager.spawn is entered: tries = 0, isSafe = false
SpawnTimer ==
    /\ pc = "spawnTimer" /\ spawnLoop.at = "idle"
    /\ IF SpawnDue
       THEN /\ Len(nibbles) < MaxNibbles
            /\ spawnLoop' = [at |-> "sampling", tries |-> 0, isSafe |-> FALSE,
                             position |-> NoPos]
            /\ pc' = pc
       ELSE /\ pc' = "collisions"
            /\ UNCHANGED spawnLoop
    /\ Commit(G)
    /\ SpawnRest

\* one pass of the do-while loop of NibbleManager.spawn with p the point
\* drawn; the pass that leaves the loop places the nibble at p, and the
\* frame goes on after this.lastSpawnTime = currentTime
SpawnSample(samples) ==
    /\ pc = "spawnTimer" /\ spawnLoop.at = "sampling"
    /\ spawnLoop.tries < SpawnTriesCap
    /\ \E p \in samples :
          LET isNearWall == IsNearWall(p)
              isSafe == IF isNearWall THEN spawnLoop.isSafe ELSE IsSafeSpot(G, p)
              tries == spawnLoop.tries + 1
              leaves == ~isNearWall /\ (tries > MaxTries \/ isSafe)
          IN  /\ spawnLoop' = [at |-> IF leaves THEN "idle" ELSE "sampling",
                               tries |-> tries, isSafe |-> isSafe, position |-> p]
              /\ IF leaves
                 THEN /\ Commit([NibbleSpawn(G, p) EXCEPT !.lastSpawnTime = now])
                      /\ pc' = "collisions"
                 ELSE /\ Commit(G)
                      /\ pc' = pc
    /\ SpawnRest

NextSpawn ==
    \/ Start(NibbleSamples)
    \/ Tick(PickupMaxTime)
    \/ UpdatePlayer(SpawnTargets)
    \/ UpdateShadows(ShadowTargets)
    \/ AnimateNibbles
    \/ CheckBoundary
    \/ CollectNibbles(NibbleSamples)
    \/ SpawnTimer
    \/ SpawnSample(SpawnSamples)
    \/ ResolveFrame

SpecSpawn == Init /\ [][NextSpawn]_vars

\* C13: NibbleManager.spawn is over once the attempt limit is exceeded,
\* whatever points were drawn: the loop never asks for another point after
\* more than MaxTries attempts.
C13_SpawnEndsAtLimit ==
    spawnLoop.at = "sampling" => spawnLoop.tries <= MaxTries

\* the tracked entities with their current positions: <<object, position>>
SnakeEntities(s) ==
    {<<HeadObj(s.id), s.head>>}
        \cup {<<SegObj(s.id, i), s.segments[i]>> : i \in 1..Len(s.segments)}

Entities ==
    (IF HasSnake(playerSnake) THEN SnakeEntities(playerSnake) ELSE {})
        \cup UNION {SnakeEntities(shadowSnakes[k]) : k \in 1..Len(shadowSnakes)}
        \cup {<<NibObj(nibbles[k].id), nibbles[k].pos>> : k \in 1..Len(nibbles)}

WithinWallDistance(p) ==
    \E a \in 1..3 : p[a] > CUBE_HALF_SIZE - SAFE_WALL_DISTANCE
                        \/ p[a] < SAFE_WALL_DISTANCE - CUBE_HALF_SIZE

\* the index query around p looks at the cells next to the cell of p
InQueriedCell(e, p) ==
    /\ e[1] \in DOMAIN spatialGrid.objectMap
    /\ \A a \in 1..3 :
          spatialGrid.objectMap[e[1]][a] - GetGridKey(p)[a] \in {-1, 0, 1}

\* a tracked entity found by the index query is closer to p than
\* SAFE_OBJECT_DISTANCE
FoundTooClose(p) ==
    \E e \in Entities :
        InQueriedCell(e, p) /\ DistSq(p, e[2]) < SAFE_OBJECT_DISTANCE * SAFE_OBJECT_DISTANCE

\* an entity recorded in the cell of its current position is closer to p
\* than SAFE_OBJECT_DISTANCE
RecordedTooClose(p) ==
    \E e \in Entities :
        /\ RecordedAt(spatialGrid, e[1], e[2])
        /\ DistSq(p, e[2]) < SAFE_OBJECT_DISTANCE * SAFE_OBJECT_DISTANCE

\* the step places a nibble at p
PlacedAt(p) ==
    /\ Len(nibbles') = Len(nibbles) + 1
    /\ nibbles'[Len(nibbles')].pos = p
    /\ RecordedAt(spatialGrid', NibObj(nibbles'[Len(nibbles')].id), p)

\* C14: a sampled point within SAFE_WALL_DISTANCE of a face is rejected, a
\* point closer than SAFE_OBJECT_DISTANCE to an entity found by the index
\* query is rejected while the attempt limit is not exceeded, a point that is
\* neither is accepted; so a nibble placed within the limit is away from the
\* walls and from every entity recorded at its position.
C14_SafeSampling ==
    [][(pc = "spawnTimer" /\ spawnLoop.at = "sampling") =>
          LET p == spawnLoop'.position
              withinLimit == spawnLoop'.tries <= MaxTries
          IN  /\ WithinWallDistance(p) => nibbles' = nibbles
              /\ (FoundTooClose(p) /\ withinLimit) => nibbles' = nibbles
              /\ (~WithinWallDistance(p) /\ ~FoundTooClose(p)) => PlacedAt(p)
              /\ (nibbles' # nibbles /\ withinLimit) =>
                     /\ PlacedAt(p)
                     /\ ~WithinWallDistance(p)
                     /\ ~RecordedTooClose(p)]_vars

\* C14 witness: a call of spawn that rejected at least one point has placed
\* its nibble at (0,0,0) within the attempt limit, with the player away.
C14_Witness ==
    /\ pc = "collisions" /\ spawnLoop.at = "idle"
    /\ spawnLoop.tries >= 2 /\ spawnLoop.tries <= MaxTries
    /\ spawnLoop.isSafe /\ spawnLoop.position = <<0, 0, 0>>
    /\ nibbles[Len(nibbles)].pos = <<0, 0, 0>>
    /\ playerSnake.head = <<300, 0, 0>>

\* the step ran Game._dissolveSnake on the player for one of the events of
\* the frame: its head and segments are out of the grid, its trail is empty
PlayerWasDissolved ==
    /\ ResolutionRuns
    /\ \E e \in 1..Len(lastCollisions') :
          /\ lastCollisions'[e].type = "player_collision"
          /\ lastCollisions'[e].object[1] = "seg"
    /\ playerSnake'.trail = << >>
    /\ \A x \in SnakeEntities(playerSnake) : x[1] \notin DOMAIN spatialGrid'.objectMap

\* C15: isGameOver becomes true only in a step that dissolves the player
\* snake, and a frame that dissolves a shadow snake leaves it false.
C15_GameOverOnlyByPlayerDissolution ==
    [][/\ (~isGameOver /\ isGameOver') => PlayerWasDissolved
       /\ (ResolutionRuns /\ Dissolved # {}) => ~isGameOver']_vars

\* C15 witness: the game is over after a frame whose events had the player's
\* head on a segment of a shadow snake that is still there.
C15_Witness ==
    /\ pc = "idle" /\ isGameOver
    /\ \E e \in 1..Len(lastCollisions), k \in 1..Len(shadowSnakes) :
          /\ lastCollisions[e].type = "player_collision"
          /\ IsSegmentOf(shadowSnakes[k], lastCollisions[e].object)

(***************************************************************************)
(* Disposal.                                                               *)
(***************************************************************************)
\* C16: once Game.dispose has run no step of a frame is taken any more (the
\* game state stays as disposal left it, but for the flags the pending
\* timeout callback clears), and the grid tracks nothing: no cell, no object.
C16_DisposedIsQuiet ==
    /\ [](pc = "disposed" =>
             spatialGrid.objectMap = << >> /\ spatialGrid.grid = << >>)
    /\ [][pc = "disposed" =>
             /\ pc' = "disposed"
             /\ UNCHANGED <<spatialGrid, playerSnake, nibbles, score, isGameOver,
                            frameIndex, crossing, lastSpawnTime,
                            lastShadowSpawnTime, lastCollisions>>]_vars

\* C16 witness: the game was disposed with a player that had eaten and a
\* shadow snake in the list.
C16_Witness ==
    /\ pc = "disposed"
    /\ HasSnake(playerSnake) /\ Len(playerSnake.segments) > InitialLength
    /\ Len(shadowSnakes) > 0
    /\ spatialGrid = EmptyGrid

(***************************************************************************)
(* The order of the steps of a frame.                                      *)
(***************************************************************************)
FrameOrder ==
    {<<"idle", "shadows">>, <<"shadows", "animate">>, <<"animate", "boundary">>,
     <<"boundary", "pickup">>, <<"pickup", "spawnTimer">>,
     <<"spawnTimer", "collisions">>, <<"collisions", "idle">>}

\* what the step that leaves position p of the frame leaves alone
StepKeeps(p) ==
    CASE p = "idle" ->
             Running /\ UNCHANGED <<shadowSnakes, nibbles, score, isGameOver,
                                    lastSpawnTime, lastShadowSpawnTime>>
      [] p = "shadows" ->
             UNCHANGED <<playerSnake, spatialGrid, nibbles, score, isGameOver,
                         lastSpawnTime, lastShadowSpawnTime>>
      [] p = "animate" ->
             UNCHANGED <<playerSnake, shadowSnakes, spatialGrid, nibbles, score,
                         isGameOver, lastSpawnTime, lastShadowSpawnTime>>
      [] p = "boundary" ->
             UNCHANGED <<playerSnake, nibbles, score, isGameOver, lastSpawnTime>>
      [] p = "pickup" ->
             UNCHANGED <<isGameOver, lastSpawnTime, lastShadowSpawnTime>>
      [] p = "spawnTimer" ->
             UNCHANGED <<playerSnake, shadowSnakes, score, isGameOver,
                         lastShadowSpawnTime>>
      [] OTHER ->
             UNCHANGED <<score, lastSpawnTime, lastShadowSpawnTime>>

CollideTargets == {<<300, 0, 0>>, <<510, 0, 0>>}

CollideShadowTargets == {<<298, 0, 0>>}

NextCollide ==
    \/ Start(NibbleSamples)
    \/ Tick(MaxTime)
    \/ TimerFire
    \/ UpdatePlayer(CollideTargets)
    \/ UpdateShadows(CollideShadowTargets)
    \/ AnimateNibbles
    \/ CheckBoundary
    \/ CollectNibbles(NibbleSamples)
    \/ SpawnNibbles(NibbleSamples)
    \/ ResolveFrame

SpecCollide == Init /\ [][NextCollide]_vars

\* classification has to report object e[1], at e[2], for the head of s: the
\* index query around the head finds it, it is not that head nor (for the
\* player) a segment of s, and it is closer than COLLISION_DISTANCE
ShouldEmit(s, e) ==
    /\ InQueriedCell(e, s.head)
    /\ e[1] # HeadObj(s.id)
    /\ ~(s.isPlayer /\ e[1][1] = "seg" /\ e[1][2] = s.id)
    /\ DistSq(s.head, e[2]) < COLLISION_DISTANCE * COLLISION_DISTANCE

\* the events of the step have one of this type for snake id and the object
Emitted(type, id, object) ==
    \E i \in 1..Len(lastCollisions') :
        lastCollisions'[i] = [type |-> type, snake |-> id, object |-> object]

ShadowIndex(id) == CHOOSE k \in 1..Len(shadowSnakes) : shadowSnakes[k].id = id

C19_NoDissolveWhileInvulnerable ==
    [][pc = "collisions" =>
          /\ crossing.spawned => isShadowSnakeInvulnerable
          /\ isShadowSnakeInvulnerable =>
                /\ lastCollisions' = << >>
                /\ shadowSnakes' = shadowSnakes
                /\ playerSnake' = playerSnake
                /\ isGameOver' = isGameOver
                /\ Len(nibbles') = Len(nibbles)
                /\ spatialGrid' = spatialGrid]_vars

\* C19 witness: the frame that spawned a shadow snake is at its collision
\* step with the new snake's head closer than COLLISION_DISTANCE to a
\* segment of the player that the grid has at its place.
C19_Witness ==
    /\ pc = "collisions" /\ crossing.spawned
    /\ \E k \in 1..Len(shadowSnakes), i \in 1..Len(playerSnake.segments) :
          /\ shadowSnakes[k].creationTime = now
          /\ Near(shadowSnakes[k].head, playerSnake.segments[i])
          /\ RecordedAt(spatialGrid, SegObj(playerSnake.id, i), playerSnake.segments[i])

\* A game in which the player, coming back from the wall, eats the nibble at
\* (30, 0, 0) while a shadow snake's head lies behind the player's tail.
GrowSamples == {<<300, 0, 0>>}

GrowTargets == {<<300, 0, 0>>, <<510, 0, 0>>}

GrowShadowTargets == {<<400, 0, 0>>}

NextGrow ==
    \/ Start(GrowSamples)
    \/ Tick(MaxTime)
    \/ TimerFire
    \/ UpdatePlayer(GrowTargets)
    \/ UpdateShadows(GrowShadowTargets)
    \/ AnimateNibbles
    \/ CheckBoundary
    \/ CollectNibbles(NibbleSamples)
    \/ SpawnNibbles(NibbleSamples)
    \/ ResolveFrame

SpecGrow == Init /\ [][NextGrow]_vars

\* C20: a segment that the nibble collection of a frame added is not the
\* object of any event of that frame's collision check.
C20_GrownSegmentNotHitSameFrame ==
    [][pc = "collisions" =>
          \A k \in 1..Len(lastCollisions') : lastCollisions'[k].object \notin grown]_vars

(***************************************************************************)
(* The invulnerability window and the timers of the spawns.                *)
(***************************************************************************)
\* the timeout callbacks that run in this step
FiredTimers == timers \ timers'

\* the callback scheduled by the latest spawn
OwnTimer(t) == t.due = lastShadowSpawnTime + InvulnerableMs

\* C21: the invulnerability flag set by a spawn is cleared only by a reset
\* or by the timeout callback that this same spawn scheduled, and a snake's
\* initial reflection phase is ended only by that snake's own callback.
C21_WindowNotCutShort ==
    [][/\ (isShadowSnakeInvulnerable /\ ~isShadowSnakeInvulnerable' /\ FiredTimers # {})
            => \A t \in FiredTimers : OwnTimer(t)
       /\ \A k \in 1..Len(shadowSnakes) :
            (/\ FiredTimers # {}
             /\ shadowSnakes[k].isInitialReflectionPhase
             /\ k <= Len(shadowSnakes')
             /\ shadowSnakes'[k].id = shadowSnakes[k].id
             /\ ~shadowSnakes'[k].isInitialReflectionPhase)
                => \A t \in FiredTimers : t.snake = shadowSnakes[k].id]_vars

(***************************************************************************)
(* The spatial index between two frames.                                   *)
(***************************************************************************)
SnakeObjects(s) == {HeadObj(s.id)} \cup {SegObj(s.id, i) : i \in 1..Len(s.segments)}

\* heads and segments of the snakes that are neither dissolved nor disposed,
\* and the nibbles of the nibble list
LiveObjects ==
    IF pc = "disposed" THEN {}
    ELSE (IF HasSnake(playerSnake) /\ ~isGameOver THEN SnakeObjects(playerSnake) ELSE {})
            \cup UNION {SnakeObjects(shadowSnakes[k]) : k \in 1..Len(shadowSnakes)}
            \cup {NibObj(nibbles[k].id) : k \in 1..Len(nibbles)}

\* what the cells of the grid hold
CellObjects ==
    UNION {{spatialGrid.grid[key][i] : i \in 1..Len(spatialGrid.grid[key])} :
              key \in DOMAIN spatialGrid.grid}

\* C22: between two frames (and after dispose) the objects in the cells of
\* the spatial grid, and the objects of its object map, are exactly the heads
\* and segments of the live snakes and the nibbles of the nibble list.
C22_IndexHoldsLiveEntities ==
    pc \in {"idle", "disposed"} =>
        /\ CellObjects = LiveObjects
        /\ DOMAIN spatialGrid.objectMap = LiveObjects

\* C22 witness: a frame ended in which a shadow snake was dissolved, after
\* the player collected a nibble, with a shadow snake and nibbles on the field.
C22_Witness ==
    /\ pc = "idle" /\ score > 0 /\ nibbles # << >>
    /\ \E e \in 1..Len(lastCollisions) : lastCollisions[e].type = "shadow_collision"
    /\ HasSnake(playerSnake) /\ ~isGameOver

(***************************************************************************)
(* The schedule of the shadow snakes: a game with two of them.             *)
(***************************************************************************)
ScheduleShadows == 2

ScheduleTargets == {<<300, 0, 0>>, <<510, 0, 0>>}

ScheduleShadowTargets == {<<400, 0, 0>>}

ScheduleSamples == {<<400, 0, 0>>}

NextSchedule ==
    \/ Start(NibbleSamples)
    \/ Tick(MaxTime)
    \/ TimerFire
    \/ UpdatePlayer(ScheduleTargets)
    \/ UpdateShadows(ScheduleShadowTargets)
    \/ AnimateNibbles
    \/ CheckBoundaryWithin(ScheduleShadows)
    \/ CollectNibbles(NibbleSamples)
    \/ SpawnNibbles(ScheduleSamples)
    \/ ResolveFrame

SpecSchedule == Init /\ [][NextSchedule]_vars


\* the snake after a call of update that brought its head to some target
IsUpdateOf(after, before) ==
    \E target \in ScheduleTargets \cup ScheduleShadowTargets :
        after = SnakeUpdate(before, spatialGrid, target).snake

\* a nibble lies within the pickup distance of the head
NibbleInReach(s) ==
    \E k \in 1..Len(nibbles) : DistSq(s.head, nibbles[k].pos) < PickupThreshold

\* C23: a frame of active play starts with the player's update; in its
\* shadow step the snake at list index i (position i + 1 of the sequence) is
\* updated when frameIndex mod 2 = i mod 2 and left alone otherwise; in its
\* pickup step the player collects a nibble in reach, and in a frame with
\* frameIndex mod 3 # 0 no shadow snake collects anything.
C23_FrameSchedule ==
    [][/\ (pc = "idle" /\ pc' # "idle")
            => pc' = "shadows" /\ Running /\ IsUpdateOf(playerSnake', playerSnake)
       /\ pc = "shadows"
            => /\ Len(shadowSnakes') = Len(shadowSnakes)
               /\ \A k \in 1..Len(shadowSnakes) :
                     IF frameIndex % 2 = (k - 1) % 2
                     THEN IsUpdateOf(shadowSnakes'[k], shadowSnakes[k])
                     ELSE shadowSnakes'[k] = shadowSnakes[k]
       /\ pc = "pickup"
            => /\ IF NibbleInReach(playerSnake)
                  THEN /\ score' = score + 1
                       /\ Len(playerSnake'.segments) = Len(playerSnake.segments) + 1
                  ELSE score' = score /\ playerSnake' = playerSnake
               /\ frameIndex % 3 # 0 => shadowSnakes' = shadowSnakes]_vars

\* C23 witness: two shadow snakes; in a frame with frameIndex = 1 the snake
\* at list index 1 was updated and the one at index 0 was not, and the pickup
\* step is reached with a nibble in reach of a shadow snake's head.
C23_Witness ==
    /\ pc = "pickup" /\ frameIndex = 1 /\ Len(shadowSnakes) = 2
    /\ shadowSnakes[2].head = <<400, 0, 0>>
    /\ shadowSnakes[1].head = <<480, 0, 0>>
    /\ NibbleInReach(shadowSnakes[2])

(***************************************************************************)
(* Uninterrupted play.  A frame callback runs to its end once it started;  *)
(* that frames keep starting and ending is the premise of the property.    *)
(***************************************************************************)
FairCollide ==
    /\ WF_vars(UpdateShadows(CollideShadowTargets))
    /\ WF_vars(AnimateNibbles)
    /\ WF_vars(SpawnNibbles(NibbleSamples))

SpecCollideFair == Init /\ [][NextCollide]_vars /\ FairCollide

ShadowIds == 1..(MaxShadows + 1)

ShadowAlive(id) == \E k \in 1..Len(shadowSnakes) : shadowSnakes[k].id = id

\* the shadow step of the running frame is about to call update on the snake
UpdateComing(id) ==
    /\ pc = "shadows"
    /\ \E k \in 1..Len(shadowSnakes) :
          shadowSnakes[k].id = id /\ frameIndex % 2 = (k - 1) % 2

\* frames keep starting and keep running to their end
FramesKeepComing == []<>(pc = "shadows") /\ []<>(pc = "idle")

\* C24: in a game whose frames keep coming, a shadow snake that is in the
\* list is updated again later or leaves the list, whatever frame indices
\* the frames get.
C24_NoShadowStarves ==
    FramesKeepComing =>
        \A id \in ShadowIds : [](ShadowAlive(id) => <>(UpdateComing(id) \/ ~ShadowAlive(id)))

(***************************************************************************)
(* The shape of the grid after any sequence of calls.                      *)
(***************************************************************************)
\* the cells that hold the object, counted with the places it has in them
PlacesOf(sg, e) ==
    {<<key, i>> \in UNION {{<<k, j>> : j \in 1..Len(sg.grid[k])} : k \in DOMAIN sg.grid} :
        sg.grid[key][i] = e}

\* C25: after any sequence of insert, remove and clear, the tracked objects
\* are those inserted and not removed since; each is held once, by the cell
\* that objectMap records for it, which is the cell of the position of its
\* last insert; the cells hold nothing else, and no cell is empty.
C25_GridShape ==
    /\ DOMAIN spatialGrid.objectMap = DOMAIN insertedAt
    /\ \A e \in DOMAIN spatialGrid.objectMap :
          /\ spatialGrid.objectMap[e] = GetGridKey(insertedAt[e])
          /\ spatialGrid.objectMap[e] \in DOMAIN spatialGrid.grid
          /\ \E i \in 1..Len(spatialGrid.grid[spatialGrid.objectMap[e]]) :
                PlacesOf(spatialGrid, e) = {<<spatialGrid.objectMap[e], i>>}
    /\ \A key \in DOMAIN spatialGrid.grid :
          /\ Len(spatialGrid.grid[key]) > 0
          /\ \A i \in 1..Len(spatialGrid.grid[key]) :
                spatialGrid.grid[key][i] \in DOMAIN spatialGrid.objectMap

\* C25 witness: an insert moved a tracked object out of a cell it was alone
\* in, into the cell of another tracked object; one cell is left.
C25_Witness ==
    /\ lastOp.op = "insert" /\ lastOp.tracked
    /\ Cardinality(DOMAIN insertedAt) = 2
    /\ Cardinality(DOMAIN spatialGrid.grid) = 1
    /\ \E e \in DOMAIN insertedAt :
          e # lastOp.object /\ insertedAt[e] # insertedAt[lastOp.object]

(***************************************************************************)
(* What getNearby returns.                                                 *)
(***************************************************************************)
\* the recorded cell is within the cell radius of the query point's cell
CellInRange(sg, e, p, r) ==
    \A a \in 1..3 :
        Abs(sg.objectMap[e][a] - GetGridKey(p)[a]) <= CeilDiv(r, CellSize)

\* C26: getNearby(P, r) returns no object twice; it returns the tracked
\* objects whose recorded cell is at most ceil(r / cellSize) cells away from
\* P's cell on every axis, and no other; so it returns every tracked object
\* inserted at a position within distance r of P.
C26_NearbyIsCellRange ==
    \A p \in QueryPoints : \A r \in Radii :
        LET found == SGGetNearby(spatialGrid, p, r)
        IN  /\ \A i, j \in 1..Len(found) : found[i] = found[j] => i = j
            /\ {found[i] : i \in 1..Len(found)}
                   = {e \in DOMAIN spatialGrid.objectMap : CellInRange(spatialGrid, e, p, r)}
            /\ \A e \in DOMAIN insertedAt :
                   DistSq(insertedAt[e], p) <= r * r => SeqHas(found, e)

\* C26 witness: three tracked objects; a query returns one that lies beyond
\* the radius, one that lies within it in a neighbouring cell, and not the third.
C26_Witness ==
    /\ Cardinality(DOMAIN insertedAt) = 3
    /\ \E p \in QueryPoints, r \in Radii :
          LET found == SGGetNearby(spatialGrid, p, r)
          IN  /\ Len(found) = 2
              /\ \E e \in DOMAIN insertedAt :
                    SeqHas(found, e) /\ DistSq(insertedAt[e], p) > r * r
              /\ \E e \in DOMAIN insertedAt :
                    /\ SeqHas(found, e) /\ DistSq(insertedAt[e], p) <= r * r
                    /\ GetGridKey(insertedAt[e]) # GetGridKey(p)

(***************************************************************************)
(* What the dissolution of a shadow snake changes.                         *)
(***************************************************************************)
\* the shadow snakes that the step takes out of the list
GoneShadows == {k \in 1..Len(shadowSnakes) : ~Alive(shadowSnakes[k].id, shadowSnakes')}

\* C27: a collision resolution that dissolves shadow snakes takes exactly
\* those snakes out of the list and their heads and segments out of the
\* grid; the other shadow snakes and the player snake are as before and the
\* game is not over.
C27_ShadowDissolutionIsLocal ==
    [][(ResolutionRuns /\ GoneShadows # {}) =>
          /\ shadowSnakes' = SelectSeq(shadowSnakes,
                                       LAMBDA s : Alive(s.id, shadowSnakes'))
          /\ \A k \in GoneShadows :
                \A o \in SnakeObjects(shadowSnakes[k]) :
                    /\ o \notin DOMAIN spatialGrid'.objectMap
                    /\ \A key \in DOMAIN spatialGrid'.grid :
                          ~SeqHas(spatialGrid'.grid[key], o)
          /\ playerSnake' = playerSnake
          /\ \A o \in SnakeObjects(playerSnake) :
                o \in DOMAIN spatialGrid.objectMap
                    => /\ o \in DOMAIN spatialGrid'.objectMap
                       /\ spatialGrid'.objectMap[o] = spatialGrid.objectMap[o]
          /\ ~isGameOver /\ ~isGameOver']_vars

\* C27 witness: of two shadow snakes one was dissolved by the collision
\* resolution of the last frame; the other one is in the list and play goes on.
C27_Witness ==
    /\ pc = "idle" /\ Running /\ Len(shadowSnakes) = 1
    /\ \E e \in 1..Len(lastCollisions) :
          /\ lastCollisions[e].type = "shadow_collision"
          /\ lastCollisions[e].snake # shadowSnakes[1].id
          /\ IsSegmentOf(playerSnake, lastCollisions[e].object)

(***************************************************************************)
(* The length of the segment list.                                         *)
(***************************************************************************)
\* a step of a frame: the snakes after it are the snakes before it
FrameStep == (pc # "idle" \/ pc' # "idle") /\ pc # "disposed" /\ pc' # "disposed"

SegmentsNeverShrink ==
    FrameStep =>
        /\ Len(playerSnake'.segments) >= Len(playerSnake.segments)
        /\ \A k \in 1..Len(shadowSnakes), j \in 1..Len(shadowSnakes') :
              shadowSnakes'[j].id = shadowSnakes[k].id
                  => Len(shadowSnakes'[j].segments) >= Len(shadowSnakes[k].segments)

DissolvedPlayerHasNoSegments ==
    (HasSnake(playerSnake) /\ isGameOver) => Len(playerSnake.segments) = 0

\* C28: while a snake is alive the length of its segment list never
\* decreases, and the segment list of a dissolved snake is empty.
C28_SegmentsGrowUntilDissolved ==
    [][SegmentsNeverShrink]_vars /\ []DissolvedPlayerHasNoSegments

(***************************************************************************)
(* Pause, game over and the splash screen.                                 *)
(***************************************************************************)
NotPlaying == ~gameStarted \/ isGameOver \/ isPaused

\* Game._reset ran in this step (start or restart)
ResetStep ==
    /\ pc = "idle" /\ pc' = "idle"
    /\ gameStarted' /\ ~isGameOver' /\ score' = 0 /\ shadowSnakes' = << >>
    /\ lastSpawnTime' = now /\ lastShadowSpawnTime' = now

Geometry(s) == <<s.head, s.facing, s.direction, s.segments>>

\* C29: while the game is not started, paused or over, no frame advances the
\* simulation: apart from a reset (and dispose) no step changes the score, a
\* snake's head, orientation or segments, the nibble list or the grid; once
\* the game is over the pause flag stays as it is and only a reset ends
\* game over.
C29_FrozenWhenNotPlaying ==
    [][/\ (NotPlaying /\ ~ResetStep /\ pc' # "disposed")
            => /\ pc' = "idle"
               /\ score' = score
               /\ Geometry(playerSnake') = Geometry(playerSnake)
               /\ Len(shadowSnakes') = Len(shadowSnakes)
               /\ \A k \in 1..Len(shadowSnakes) :
                     Geometry(shadowSnakes'[k]) = Geometry(shadowSnakes[k])
               /\ nibbles' = nibbles
               /\ spatialGrid' = spatialGrid
       /\ isGameOver => (isPaused' = isPaused /\ (isGameOver' \/ ResetStep))]_vars

\* C29 witness: the game is paused in the middle of play, with a shadow
\* snake on the field whose timeout callback is due.
C29_Witness ==
    /\ pc = "idle" /\ gameStarted /\ isPaused /\ ~isGameOver
    /\ shadowSnakes # << >>
    /\ \E t \in timers : t.due <= now


\* C30: after a restart (reincarnate button on the game-over screen, restart
\* entry of the pause menu) the game is started, not over and not paused.
C30_RestartResumesPlay ==
    [][(ResetStep /\ gameStarted) => (gameStarted' /\ ~isGameOver' /\ ~isPaused')]_vars

(***************************************************************************)
(* The snake update in detail: the slither offset, the wall clamp, the     *)
(* seeking speed and the trail under changing settings.                    *)
(***************************************************************************)
\* wiggle * 0.1 lies between -0.05 and 0.05 of a unit; on the grid of tenths
\* it is no offset or one step
Wiggles == {0, 1}

SlitherTargets == {<<0, 0, 0>>, <<300, 510, 0>>}

\* a place within the slow-down distance of the nibble sample and out of its
\* pickup distance, and a place beyond two walls
SlitherShadowTargets == {<<300, 18, 0>>, <<470, 505, -600>>}

SlitherSamples == {<<300, 0, 0>>}

TrailLengths == 1..TrailLength

ShadowSpeeds == {DefaultShadowSpeed, DefaultShadowSpeed + 20}

\* settings.trailLength = value (Settings.set); no listener is subscribed
SetTrailLength(values) ==
    /\ pc = "idle"
    /\ \E v \in values :
          /\ v # settings.trailLength
          /\ settings' = [settings EXCEPT !.trailLength = v]
    /\ KeepCollisions
    /\ UNCHANGED <<spatialGrid, isGameOver, gameStarted, isPaused, score,
                   lastSpawnTime, lastShadowSpawnTime, isShadowSnakeInvulnerable,
                   playerSnake, shadowSnakes, nibbles, now, timers, pc,
                   frameIndex, crossing, prevHead, windowStart>>
    /\ UNCHANGED <<insertedAt, lastOp, spawnLoop, grown, slither>>
    /\ PoolKept

\* the shadow speed control of the pause menu: settings.shadowSpeed = value,
\* then Game._handleSettingChange('shadowSpeed', value)
SetShadowSpeed(values) ==
    /\ pc = "idle"
    /\ \E v \in values :
          /\ settings' = [settings EXCEPT !.shadowSpeed = v]
          /\ shadowSnakes' = [k \in 1..Len(shadowSnakes) |->
                                 [shadowSnakes[k] EXCEPT !.speed = v]]
    /\ KeepCollisions
    /\ UNCHANGED <<spatialGrid, isGameOver, gameStarted, isPaused, score,
                   lastSpawnTime, lastShadowSpawnTime, isShadowSnakeInvulnerable,
                   playerSnake, nibbles, now, timers, pc,
                   frameIndex, crossing, prevHead, windowStart>>
    /\ UNCHANGED <<insertedAt, lastOp, spawnLoop, grown, slither>>
    /\ PoolKept

NextSlither ==
    \/ Start(SlitherSamples)
    \/ Tick(MaxTime)
    \/ TimerFire
    \/ SetShadowSpeed(ShadowSpeeds)
    \/ UpdatePlayer(SlitherTargets)
    \/ UpdateShadowsWiggle(SlitherShadowTargets, Wiggles)
    \/ AnimateNibbles
    \/ CheckBoundary
    \/ CollectNibbles(SlitherSamples)
    \/ SpawnNibbles(SlitherSamples)
    \/ ResolveFrame

SpecSlither == Init /\ [][NextSlither]_vars

\* C31: shadow snakes never leave the arena: at its spawn and after every
\* update, in or out of the reflection phase, the head of a shadow snake has
\* |x|, |y|, |z| <= CUBE_HALF_SIZE.
C31_ShadowsStayInArena ==
    \A k \in 1..Len(shadowSnakes) : IsInsideCube(shadowSnakes[k].head)

\* a shadow snake out of its reflection phase that was clamped at two walls
\* and then moved by the slither offset
C31_Witness ==
    \E k \in 1..Len(shadowSnakes) :
        /\ shadowSnakes[k].head[2] = CUBE_HALF_SIZE - SEGMENT_RADIUS + 1
        /\ shadowSnakes[k].head[3] = -(CUBE_HALF_SIZE - SEGMENT_RADIUS)
        /\ ~shadowSnakes[k].isInitialReflectionPhase

\* the head Snake.update leaves a snake that is not the player with, moved to
\* target and given the slither offset w
SlitherHead(target, w) ==
    <<AvoidWalls(target)[1], AvoidWalls(target)[2] + w, AvoidWalls(target)[3]>>

\* no nibble is within the slow-down distance of pos (also: no nibble exists)
NoNibbleNear(pos) ==
    \A i \in 1..Len(nibbles) : ~DistAtMost(pos, nibbles[i].pos, SeekSlowDistance)

\* C32: a shadow snake slowed to half speed near a nibble gets its speed back:
\* after every update of a shadow snake outside its reflection phase in which
\* the nearest nibble is farther than 2 units from the moved head, or no
\* nibble exists, the snake's speed is settings.shadowSpeed.
C32_SpeedRestoredAwayFromNibbles ==
    [][(pc = "shadows" /\ pc' = "animate") =>
          \A k \in 1..Len(shadowSnakes) :
              (frameIndex % 2 = (k - 1) % 2
               /\ ~shadowSnakes[k].isInitialReflectionPhase) =>
                  \A target \in SlitherShadowTargets, w \in Wiggles :
                      (shadowSnakes'[k].head = SlitherHead(target, w)
                       /\ NoNibbleNear(target)) =>
                          shadowSnakes'[k].speed = settings.shadowSpeed]_vars

(***************************************************************************)
(* The player's slither offset and what the frame decides from the head.   *)
(***************************************************************************)
\* at a wall, within the pickup distance of the nibble sample, at the origin
WiggleTargets == {<<0, 0, 0>>, <<300, 500, 0>>, <<300, 14, 0>>}

WiggleSamples == {<<300, 0, 0>>}

NextWiggle ==
    \/ Start(WiggleSamples)
    \/ UpdatePlayerWiggle(WiggleTargets, Wiggles)
    \/ UpdateShadows(ShadowTargets)
    \/ AnimateNibbles
    \/ CheckBoundary
    \/ CollectNibbles(WiggleSamples)
    \/ SpawnNibbles(WiggleSamples)
    \/ ResolveFrame

SpecWiggle == Init /\ [][NextWiggle]_vars

\* the player as its last update would have left it without the slither offset
BarePlayer ==
    LET bare == <<playerSnake.head[1], playerSnake.head[2] - slither,
                  playerSnake.head[3]>>
    IN  [playerSnake EXCEPT !.head = bare,
                            !.trail = IF Len(@) > 0 THEN [@ EXCEPT ![1] = bare] ELSE @]

\* C33: the slither offset is cosmetic: the boundary check and the nibble
\* pickup of a frame decide from the player's head as they would without the
\* offset, so that two runs differing only in the offset see the same
\* boundary crossings and the same pickups.
C33_SlitherIsCosmetic ==
    /\ pc = "boundary" =>
          BoundaryCrossing(playerSnake).crossed = BoundaryCrossing(BarePlayer).crossed
    /\ pc = "pickup" =>
          FindNearby(nibbles, playerSnake.head) = FindNearby(nibbles, BarePlayer.head)

(***************************************************************************)
(* The frame of the single-file build (animate and checkCubeBoundary of    *)
(* the working game module), whose steps are those of _updateGameLogic.    *)
(***************************************************************************)
\* the segments spawnShadowSnake adds to the snake its constructor made
ScriptBaseSegments == 5

\* the temporary addSegment of spawnShadowSnake, called baseSegments times
RECURSIVE ScriptAddBase(_, _, _)
ScriptAddBase(s, sg, n) ==
    IF n = 0 THEN [snake |-> s, sg |-> sg]
    ELSE LET k == Len(s.segments)
             direction == UnitDir(s.segments[k - 1], s.segments[k])
             pos == MoveForward(s.segments[k], direction, SEGMENT_SPACING)
         IN  ScriptAddBase([s EXCEPT !.segments = Append(@, pos)],
                           UpdateObject(sg, SegObj(s.id, k + 1), pos), n - 1)

\* spawnShadowSnake after the snake was made: nothing more when the rate
\* limit returned early (the list is as long as before), else the last snake
\* of the list is given its base segments
ScriptWithBase(g, last, r) ==
    [g EXCEPT !.shadowSnakes[last] = r.snake, !.spatialGrid = r.sg]

ScriptBaseSnake(g, before) ==
    IF Len(g.shadowSnakes) = before THEN g
    ELSE ScriptWithBase(g, Len(g.shadowSnakes),
                        ScriptAddBase(g.shadowSnakes[Len(g.shadowSnakes)],
                                      g.spatialGrid, ScriptBaseSegments))

\* spawnShadowSnake of the single-file build: the rate limit, the inset, the
\* reflection and the timeout of Game._spawnShadowSnake; the snake, which its
\* constructor gave its 5 segments, is then given baseSegments more, each one
\* spacing beyond the last on the line of the last two.
ScriptSpawnShadowSnake(g, wallHitPoint, normal, currentTime) ==
    ScriptBaseSnake(SpawnShadowSnake(g, wallHitPoint, normal, currentTime),
                    Len(g.shadowSnakes))

\* the nibble collection of animate in the single-file build: the nibble is
\* removed, addSegment is called, the score counts a pickup of the player and
\* a replacement is spawned; nibblesEaten is not touched.  (Snakes are kept
\* within the lengths the bounds of the model allow.)
ScriptCollectNibbles(samples) ==
    /\ pc = "pickup"
    /\ \E ps \in [1..(Len(shadowSnakes) + 1) -> samples] :
          LET st == CheckNibbleCollection(G, frameIndex, ps)
              g2 == [st.g EXCEPT
                        !.playerSnake.nibblesEaten = playerSnake.nibblesEaten,
                        !.shadowSnakes =
                            [k \in 1..Len(@) |->
                                [@[k] EXCEPT !.nibblesEaten =
                                                 shadowSnakes[k].nibblesEaten]]]
          IN  /\ st.ok
              /\ \A k \in 1..Len(st.samples) :
                     st.samples[k] = (CHOOSE p \in samples : TRUE)
              /\ Len(g2.playerSnake.segments) <= InitialLength + MaxEaten
              /\ \A k \in 1..Len(g2.shadowSnakes) :
                     Len(g2.shadowSnakes[k].segments)
                         <= InitialLength + ScriptBaseSegments + MaxEaten
              /\ Commit(g2)
              /\ grown' = GrownObjects(G, st.g)
    /\ pc' = "spawnTimer"
    /\ KeepCollisions
    /\ UNCHANGED <<gameStarted, isPaused, now, frameIndex, crossing, prevHead,
                   windowStart>>
    /\ PickupUnchanged

\* checkCubeBoundary(playerSnake) of the single-file build.  When a wall hit
\* point was found, spawnShadowSnake is called and the pooled vectors are
\* released; the last release names spawnPosition, a constant declared only
\* inside spawnShadowSnake, so a ReferenceError is thrown there and leaves
\* animate: the rest of the frame is not run.  The next frame was requested
\* when animate was entered.
ScriptCheckBoundary ==
    /\ pc = "boundary"
    /\ LET c == BoundaryCrossing(playerSnake)
           thrown == playerSnake.isPlayer /\ c.crossed /\ c.wallHitPoint # NoPos
           g == IF thrown
                THEN ScriptSpawnShadowSnake(G, c.wallHitPoint, c.normal, now)
                ELSE G
           spawned == Len(g.shadowSnakes) > Len(shadowSnakes)
       IN  /\ Len(g.shadowSnakes) <= MaxShadows
           /\ Commit(g)
           /\ crossing' = [crossed |-> c.crossed, wallHitPoint |-> c.wallHitPoint,
                           normal |-> c.normal, axis |-> c.axis, spawned |-> spawned]
           /\ windowStart' = IF spawned THEN now ELSE windowStart
           /\ pc' = IF thrown THEN "idle" ELSE "pickup"
    /\ KeepCollisions
    /\ UNCHANGED <<gameStarted, isPaused, now, frameIndex, prevHead>>
    /\ HarnessUnchanged

NextScript ==
    \/ Start(GrowSamples)
    \/ Tick(MaxTime)
    \/ TimerFire
    \/ UpdatePlayer(CollideTargets)
    \/ UpdateShadows(CollideShadowTargets)
    \/ AnimateNibbles
    \/ ScriptCheckBoundary
    \/ ScriptCollectNibbles(NibbleSamples)
    \/ SpawnNibbles(NibbleSamples)
    \/ ResolveFrame

SpecScript == Init /\ [][NextScript]_vars

\* C35: no exception escapes a frame: when the boundary check of a frame
\* detects a crossing, whether or not the spawn is then rate-limited, the
\* frame goes on to the nibble pickup check (and from there to the spawn
\* timer and the collision check).
C35_FrameSurvivesCrossing ==
    [][(pc = "boundary" /\ crossing'.crossed) => pc' = "pickup"]_vars

(***************************************************************************)
(* The trail under a trail length that the settings change between frames.  *)
(***************************************************************************)
NextTrail ==
    \/ Start(NibbleSamples)
    \/ Tick(MaxTime)
    \/ TimerFire
    \/ SetTrailLength(TrailLengths)
    \/ UpdatePlayer(CollideTargets)
    \/ UpdateShadows(CollideShadowTargets)
    \/ AnimateNibbles
    \/ CheckBoundary
    \/ CollectNibbles(NibbleSamples)
    \/ SpawnNibbles(NibbleSamples)
    \/ ResolveFrame

SpecTrail == Init /\ [][NextTrail]_vars

\* the trail after is the trail before with the new head in front, cut at the
\* old end to at most settings.trailLength entries
TrailKept(after, before) ==
    /\ Len(after.trail) >= 1
    /\ after.trail[1] = after.head
    /\ Len(after.trail) <= Len(before.trail) + 1
    /\ \A i \in 2..Len(after.trail) : after.trail[i] = before.trail[i - 1]
    /\ Len(after.trail) <= settings.trailLength

\* C34: after every Snake.update the first entry of the trail is the new head,
\* the entries behind it are the former ones in their order (newest first, the
\* oldest evicted first), and the trail has at most settings.trailLength
\* entries, also when trailLength was changed between frames.
C34_TrailFollowsHead ==
    [][/\ (pc = "idle" /\ pc' = "shadows") => TrailKept(playerSnake', playerSnake)
       /\ (pc = "shadows" /\ pc' = "animate") =>
             \A k \in 1..Len(shadowSnakes) :
                 frameIndex % 2 = (k - 1) % 2 =>
                     TrailKept(shadowSnakes'[k], shadowSnakes[k])]_vars

(***************************************************************************)
(* Play with pickups by the player and by shadow snakes, dissolutions,     *)
(* pauses and restarts.                                                     *)
(***************************************************************************)
\* the origin, where the grid holds the segments of a new shadow snake, the
\* place of a nibble, and the wall
PlayTargets == {<<0, 0, 0>>, <<300, 0, 0>>, <<510, 0, 0>>}

PlayShadowTargets == {<<400, 0, 0>>}

\* where the nibble of a new game falls: on the player's way or on the
\* shadow snake's
PlaySamples == {<<300, 0, 0>>, <<400, 0, 0>>}

NextPlay ==
    \/ Start(PlaySamples)
    \/ Restart(PlaySamples)
    \/ Tick(MaxTime)
    \/ TimerFire
    \/ UpdatePlayer(PlayTargets)
    \/ UpdateShadows(PlayShadowTargets)
    \/ AnimateNibbles
    \/ CheckBoundary
    \/ CollectNibbles(NibbleSamples)
    \/ SpawnNibbles(NibbleSamples)
    \/ ResolveFrame

SpecPlay == Init /\ [][NextPlay]_vars

\* C36: nibbles leave the field only by pickup or by a full reset: no step but
\* a reset makes the nibble list shorter; the nibble collection of a frame
\* removes one nibble and adds one replacement for each snake that picked one
\* up; and at every frame boundary of active play there is at least one
\* nibble.  (Game.dispose, which ends the game for good, is no step of play.)
C36_NibblesLeaveOnlyByPickup ==
    [][/\ ResetStep \/ Len(nibbles') >= Len(nibbles)
       /\ (pc = "pickup" /\ pc' = "spawnTimer") =>
             /\ Len(nibbles') = Len(nibbles)
             /\ Cardinality({i \in 1..Len(nibbles') : nibbles'[i].fresh})
                    = Cardinality(grown')
       /\ (pc' = "idle" /\ Running') => Len(nibbles') >= 1]_vars

\* the player and a shadow snake have picked nibbles up and a replacement is
\* in the field
C36_Witness ==
    /\ pc = "idle" /\ Running /\ score > 0
    /\ \E k \in 1..Len(shadowSnakes) : shadowSnakes[k].nibblesEaten > 0
    /\ \E i \in 1..Len(nibbles) : nibbles[i].pos = <<-300, 0, 0>>

\* the player picks a nibble up in the nibble collection of the running frame
PlayerPicksUp == HasSnake(playerSnake) /\ FindNearby(nibbles, playerSnake.head) # 0

\* C37: the score is the number of nibbles the player collected since the last
\* reset: at every frame boundary score = playerSnake.nibblesEaten; a nibble
\* collection adds 1 when the player picks a nibble up and nothing otherwise,
\* whatever the shadow snakes pick up; no other step but a reset changes the
\* score, dissolutions included; and a reset leaves it at 0.
C37_ScoreCountsPlayerPickups ==
    [][/\ pc' = "idle" => score' = playerSnake'.nibblesEaten
       /\ (pc = "pickup" /\ pc' = "spawnTimer") =>
             score' = score + (IF PlayerPicksUp THEN 1 ELSE 0)
       /\ (pc # "pickup" /\ ~ResetStep) => score' = score
       /\ ResetStep => score' = 0]_vars

\* the player, that had picked a nibble up, was dissolved at a shadow snake
C37_Witness ==
    /\ pc = "idle" /\ isGameOver /\ score > 0
    /\ shadowSnakes # << >>

\* a snake has its 5 initial segments and one segment for each nibble it ate
SegmentsMatch(s) == Len(s.segments) = InitialLength + s.nibblesEaten

\* C38: every live snake has segments.length = 5 + nibblesEaten at every frame
\* boundary, so that a player that is dissolved drops exactly nibblesEaten
\* nibbles.
C38_SegmentsCountPickups ==
    [][/\ pc' = "idle" =>
             /\ (HasSnake(playerSnake') /\ ~isGameOver') => SegmentsMatch(playerSnake')
             /\ \A k \in 1..Len(shadowSnakes') : SegmentsMatch(shadowSnakes'[k])
       /\ (pc = "collisions" /\ ~isGameOver /\ isGameOver'
           /\ Len(shadowSnakes') = Len(shadowSnakes)) =>
             Len(nibbles') = Len(nibbles) + playerSnake.nibblesEaten]_vars


(***************************************************************************)
(* NibbleManager.findNearby: the player's head stops at points from which  *)
(* two nibbles are in reach at different distances, at a point that lies  *)
(* exactly on the threshold of one nibble, and beyond the +x face.  The     *)
(* clock stops at 3 s, before the timeout of any shadow spawn is due.      *)
(***************************************************************************)
NearbyTargets == {<<0, 0, 0>>, <<302, 0, 0>>, <<305, 0, 0>>, <<510, 0, 0>>}

NearbyShadowTargets == {<<298, 0, 0>>}

NextNearby ==
    \/ Start(PickupSamples)
    \/ Tick(2 * TickMs)
    \/ UpdatePlayer(NearbyTargets)
    \/ UpdateShadows(NearbyShadowTargets)
    \/ AnimateNibbles
    \/ CheckBoundary
    \/ CollectNibbles(NibbleSamples)
    \/ SpawnNibbles(PickupSamples)
    \/ ResolveFrame

SpecNearby == Init /\ [][NextNearby]_vars

\* the positions findNearby is called with: the heads of the snakes
NearbyProbes ==
    (IF HasSnake(playerSnake) THEN {playerSnake.head} ELSE {})
        \cup {shadowSnakes[k].head : k \in 1..Len(shadowSnakes)}

Within(position, n) == DistSq(position, n.pos) < PickupThreshold

\* C39: for every snake head, findNearby returns the lowest index of a
\* nibble whose squared distance to the head is below the threshold (the
\* first match in list order, whether or not a later nibble is nearer), and
\* the value for "none" (-1 in the program, 0 with 1-based indices) exactly
\* when no nibble of the list is within the threshold.
C39_FindNearbyFirstMatch ==
    \A position \in NearbyProbes :
        LET index == FindNearby(nibbles, position)
        IN  /\ index \in 0..Len(nibbles)
            /\ index = 0 <=> \A k \in 1..Len(nibbles) : ~Within(position, nibbles[k])
            /\ index # 0 =>
                  /\ Within(position, nibbles[index])
                  /\ \A j \in 1..(index - 1) : ~Within(position, nibbles[j])

\* C39 witness: the pickup check is about to run with two nibbles in reach
\* of the player's head, a later one strictly nearer than the one
\* findNearby returns, and a shadow snake's head finds no nibble in reach.
C39_Witness ==
    /\ pc = "pickup"
    /\ HasSnake(playerSnake)
    /\ LET index == FindNearby(nibbles, playerSnake.head)
       IN  /\ index # 0
           /\ \E j \in (index + 1)..Len(nibbles) :
                 /\ Within(playerSnake.head, nibbles[j])
                 /\ DistSq(playerSnake.head, nibbles[j].pos)
                        < DistSq(playerSnake.head, nibbles[index].pos)
    /\ \E k \in 1..Len(shadowSnakes) : FindNearby(nibbles, shadowSnakes[k].head) = 0


(***************************************************************************)
(* Vector3Pool under play: the player crosses the +x face, hits the body   *)
(* of the shadow snake that comes in, is dissolved, and the game is        *)
(* started again.                                                          *)
(***************************************************************************)
NextPool ==
    \/ Start(NibbleSamples)
    \/ Restart(NibbleSamples)
    \/ Tick(MaxTime)
    \/ TimerFire
    \/ UpdatePlayer(PlayTargets)
    \/ UpdateShadows(PlayShadowTargets)
    \/ AnimateNibbles
    \/ CheckBoundary
    \/ CollectNibbles(NibbleSamples)
    \/ SpawnNibbles(NibbleSamples)
    \/ ResolveFrame

SpecPool == InitPool /\ [][NextPool]_vars

\* C40: the pool never holds the same vector twice and never more than
\* maxPoolSize vectors, and get never hands out a vector that it handed out
\* before and that was not released since, whatever the game does, a
\* dissolution of the player followed by a reset included.
C40_PoolHoldsEachVectorOnce ==
    /\ \A i, j \in 1..Len(pool) : i # j => pool[i] # pool[j]
    /\ Len(pool) <= MaxPoolSize
    /\ ~lent.aliased

=============================================================================
